---- MODULE Spec2Model ----
(***************************************************************************)
(* Zen load balancer: per-backend connection pool (both revisions kept in  *)
(* backend/connectionPool.go), PooledConnection wrapper, backend registry, *)
(* round-robin selector, health checker and the per-client proxy handler.  *)
(***************************************************************************)
EXTENDS Integers, Sequences, FiniteSets, TLC

\* ------------------------------------------------------------- bounds
NumBackends == 2      \* addresses handed to NewBackendPool
MaxIdle == 1          \* maxIdle of every pool (scaled down from 10)
MaxActive == 1        \* maxActive of every pool (scaled down from 100)
LifoMaxIdle == 2      \* maxIdle of the pool whose idle stack is followed
LifoMaxActive == 2    \* maxActive of that pool
IdleTimeout == 1      \* idleTimeout in clock ticks
MaxTime == 2          \* the clock stops advancing here
MaxConns == 2         \* dials that may succeed in one run
MaxWrappers == 3      \* PooledConnection wrappers created in one run
MaxCounter == 6       \* RoundRobin.counter stops being advanced by other clients here
MaxSessions == 2      \* client sessions served one after the other
MaxBytes == 2         \* bytes each peer of a stream writes
BufSize == 2          \* size of a copyData buffer (scaled down from 32*1024)
MaxCycles == 5        \* health-check cycles in one run
MaxStopCycles == 3    \* health-check cycles in one run in which Stop is called
MaxLive == 3          \* backends of the registry in the selector runs
MaxCalls == 3         \* Next() calls in one selector run
MaxSnapUpdates == 2   \* updateBackendStatus calls made while readers hold slices
MaxUpdates == 1       \* updateBackendStatus calls in one selector run
CounterBits == 4      \* width of RoundRobin.counter (scaled down from 64)

\* ------------------------------------------------- program constants
maxRetries == 3           \* NewConnectionHandler
HealthyThreshold == 2     \* NewHealthChecker's default config
UnhealthyThreshold == 3   \* NewHealthChecker's default config

Backends == 1..NumBackends

\* go pool.periodicCleanup(): every pool's worker waits on its ticker
StartWorkers == [b \in Backends |-> "range"]

\* NewConnectionPool's maxIdle and maxActive, scaled down
PoolConfig == [maxIdle |-> MaxIdle, maxActive |-> MaxActive]
\* the registry of the selector runs, and the goroutines calling Next() on it
SelBackends == 1..MaxLive
Callers == {1, 2}
NoCaller == [pc |-> "idle", snap |-> <<>>, res |-> 0, err |-> FALSE]
\* atomic.Uint64 wraps at 2^64; the width is scaled down to CounterBits
CounterModulus == 2 ^ CounterBits
\* The request under observation.  Every other client reaches the state this
\* one shares with it through OtherNext (the round-robin counter).
Clients == {1}
Attempts == 1..maxRetries

VARIABLES
    rev,          \* which revision of connectionPool.go is running (1 or 2)
    config,       \* cp.config of every pool: maxIdle and maxActive
    worker,       \* per pool: the position of its periodicCleanup goroutine
    now,          \* wall clock, in ticks
    idleConns,    \* per pool: stack of PoolConn{conn, lastUsedAt}, top is last
    activeCount,  \* per pool: cp.activeCount
    closed,       \* per pool: cp.closed
    conns,        \* every dialed net.Conn: its pool, local close, peer close
    wrappers,     \* every PooledConnection: its conn and whether once has fired
    up,           \* per backend: whether it accepts TCP connections
    alive,        \* per backend: Backend.alive
    aliveBackends,\* Pool.aliveBackends, the published live snapshot
    counter,      \* RoundRobin.counter
    client,       \* per client: the state of its HandleConnection call
    getter,       \* per client and attempt: getConnectionWithContext's goroutine
    copy,         \* per direction: the state of its copyData goroutine
    wire,         \* bytes and FINs in flight between client, proxy and backend
    hcMu,         \* HealthChecker.mu: 0, or the backend whose probe holds it
    poolMu,       \* Pool.mu: 0, or the backend whose probe holds it for writing
    backendHealth,\* HealthChecker.backendHealth: consecutive successes/failures
    probe,        \* per backend: the state of its checkBackend goroutine
    cycle,        \* checkAllBackends cycles counted against MaxCycles
    loop,         \* the position of the healthCheckLoop goroutine
    stop,         \* the position of the call of HealthChecker.Stop
    caller,       \* per caller of RoundRobin.Next: its position, snapshot and result
    returned,     \* per backend: how many Next() calls have selected it
    updates,      \* updateBackendStatus calls completed since the start
    heap          \* the backing arrays of the registry's slices, and which of
                  \* them pool.allBackends and pool.aliveBackends refer to

poolVars == <<rev, config, worker, now, idleConns, activeCount, closed, conns, wrappers>>
regVars == <<up, alive, aliveBackends>>
proxyVars == <<counter, client, getter>>
streamVars == <<copy, wire>>
healthVars == <<hcMu, poolMu, backendHealth, probe, cycle, loop, stop>>
selVars == <<caller, returned, updates, heap>>

vars == <<poolVars, regVars, proxyVars, streamVars, healthVars, selVars>>

\* ------------------------------------------------- sequences and helpers
RECURSIVE SelectSeqIdx(_, _, _)
\* the subsequence of s whose elements satisfy Test, in order
SelectSeqIdx(s, Test(_), i) ==
    IF i > Len(s) THEN <<>>
    ELSE IF Test(s[i]) THEN <<s[i]>> \o SelectSeqIdx(s, Test, i + 1)
    ELSE SelectSeqIdx(s, Test, i + 1)

Range(s) == {s[i] : i \in 1..Len(s)}

RECURSIVE SumUpTo(_, _)
\* f[1] + ... + f[n]
SumUpTo(f, n) == IF n = 0 THEN 0 ELSE f[n] + SumUpTo(f, n - 1)

\* Next() calls that have selected a backend
SumCalls(f) == SumUpTo(f, MaxLive)

IdleIds(b) == {idleConns[b][i].conn : i \in 1..Len(idleConns[b])}

\* net.Conn.Close on a set of connections
CloseConns(cs, ids) ==
    [i \in 1..Len(cs) |-> IF i \in ids THEN [cs[i] EXCEPT !.fdClosed = TRUE] ELSE cs[i]]

\* ------------------------------------- NewBackend / NewConnectionPool
\* A time.Duration is a count of nanoseconds, kept here as whole seconds and
\* the nanoseconds left over.  Duration(n) is the conversion of the integer
\* n, Seconds(k) is k * time.Second.
Duration(n) == [sec |-> n \div (1000 * 1000 * 1000), nsec |-> n % (1000 * 1000 * 1000)]

Seconds(k) == [sec |-> k, nsec |-> 0]

\* a dial without a timeout
NoTimeout == Duration(0)

\* newConfig: the arguments as given, idleTimeout a time.Duration, and
\* connectTimeout: 5 * time.Second
newConfig(maxIdle, maxActive, idleTimeout) ==
    [maxIdle |-> maxIdle, maxActive |-> maxActive, idleTimeout |-> idleTimeout,
     connectTimeout |-> Seconds(5)]

\* NewBackend: NewConnectionPool(address, 10, 100, 30); the untyped constant 30
\* becomes time.Duration(30)
NewBackendConfig == newConfig(10, 100, Duration(30))

\* The timeout of Get's dial: net.Dial("tcp", address) in the first revision,
\* net.DialTimeout("tcp", address, cp.config.connectTimeout) in the second.
DialTimeout(r, cfg) == IF r = 1 THEN NoTimeout ELSE cfg.connectTimeout

\* --------------------------------------------------- ConnectionPool.Get
\* The error of Get on a closed pool: net.ErrClosed in the first revision,
\* ErrPoolClosed in the second.
ClosedError == IF rev = 1 THEN "net.ErrClosed" ELSE "ErrPoolClosed"

\* idleConn := cp.idleConns[n-1], the entry Get takes from a non-empty stack
IdleBottom(idle) == idle[1]

IdleTop(idle) == idle[Len(idle)]

\* Both revisions: closed -> error; idle non-empty -> pop the top, activeCount
\* untouched; activeCount >= maxActive -> exhausted; else dial, ++ on success.
Get(b, dialOK) ==
    LET n == Len(idleConns[b]) IN
    IF closed[b] THEN
        [err |-> ClosedError, conn |-> 0, idle |-> idleConns[b],
         active |-> activeCount[b], cs |-> conns, dialed |-> FALSE, below |-> 0]
    ELSE IF n > 0 THEN
        [err |-> "nil", conn |-> IdleTop(idleConns[b]).conn, idle |-> SubSeq(idleConns[b], 1, n - 1),
         active |-> activeCount[b], cs |-> conns, dialed |-> FALSE, below |-> n - 1]
    ELSE IF activeCount[b] >= config.maxActive THEN
        [err |-> "ErrPoolExhausted", conn |-> 0, idle |-> idleConns[b],
         active |-> activeCount[b], cs |-> conns, dialed |-> FALSE, below |-> 0]
    ELSE IF ~dialOK THEN
        [err |-> "dial", conn |-> 0, idle |-> idleConns[b],
         active |-> activeCount[b], cs |-> conns, dialed |-> TRUE, below |-> 0]
    ELSE
        [err |-> "nil", conn |-> Len(conns) + 1, idle |-> idleConns[b],
         active |-> activeCount[b] + 1,
         cs |-> Append(conns, [pool |-> b, fdClosed |-> FALSE, peerClosed |-> FALSE]),
         dialed |-> TRUE, below |-> 0]

\* ------------------------------------- ConnectionPool.validateConnection
\* First revision only.  SetReadDeadline fails on a descriptor that is already
\* closed: close, no count change.  Otherwise a one-byte read with a 1 ms
\* deadline: anything but io.EOF (a timeout on a healthy connection, or unread
\* data) closes the connection and decrements activeCount; io.EOF (the peer has
\* closed and nothing is unread) keeps it.
validateConnection(c, active, pending) ==
    IF c.fdClosed THEN [closeIt |-> TRUE, active |-> active]
    ELSE IF ~(c.peerClosed /\ ~pending) THEN [closeIt |-> TRUE, active |-> active - 1]
    ELSE [closeIt |-> FALSE, active |-> active]

\* ---------------------------------------------------- ConnectionPool.put
\* len(cp.idleConns) >= cp.config.maxIdle, the test both revisions make before
\* they append.
IdleFullNever(b) == FALSE

IdleFullAlways(b) == TRUE

IdleFull(b) == Len(idleConns[b]) >= config.maxIdle

put1(b, id, pending) ==
    IF closed[b] THEN
        [idle |-> idleConns[b], active |-> activeCount[b], cs |-> CloseConns(conns, {id})]
    ELSE
        LET v == validateConnection(conns[id], activeCount[b], pending)
            cs1 == IF v.closeIt THEN CloseConns(conns, {id}) ELSE conns
        IN IF IdleFull(b) THEN
               [idle |-> idleConns[b], active |-> v.active, cs |-> CloseConns(cs1, {id})]
           ELSE
               [idle |-> Append(idleConns[b], [conn |-> id, lastUsedAt |-> now]),
                active |-> v.active - 1, cs |-> cs1]

put2(b, id, pending) ==
    IF closed[b] THEN
        [idle |-> idleConns[b], active |-> activeCount[b], cs |-> CloseConns(conns, {id})]
    ELSE IF IdleFull(b) THEN
        [idle |-> idleConns[b], active |-> activeCount[b] - 1, cs |-> CloseConns(conns, {id})]
    ELSE
        [idle |-> Append(idleConns[b], [conn |-> id, lastUsedAt |-> now]),
         active |-> activeCount[b], cs |-> conns]

put(b, id, pending) == IF rev = 1 THEN put1(b, id, pending) ELSE put2(b, id, pending)

\* ------------------------------------------------ ConnectionPool.cleanup
\* now.Sub(idleConn.lastUsedAt) > cp.config.idleTimeout
ExpiredAtTimeout(e) == now - e.lastUsedAt >= IdleTimeout

Expired(e) == now - e.lastUsedAt > IdleTimeout

cleanup(b) ==
    IF closed[b] THEN
        [idle |-> idleConns[b], active |-> activeCount[b], cs |-> conns]
    ELSE
        LET gone == {idleConns[b][i].conn : i \in {j \in 1..Len(idleConns[b]) : Expired(idleConns[b][j])}}
            keep == SelectSeqIdx(idleConns[b], LAMBDA e : ~Expired(e), 1)
            nExp == Len(idleConns[b]) - Len(keep)
        IN [idle |-> keep,
            active |-> IF rev = 2 THEN activeCount[b] - nExp ELSE activeCount[b],
            cs |-> CloseConns(conns, gone)]

\* -------------------------------------------------- ConnectionPool.Close
ConnectionPoolClose(b) ==
    [idle |-> <<>>, active |-> activeCount[b], cs |-> CloseConns(conns, IdleIds(b))]

\* &PooledConnection{conn: conn, pool: cp}.  puts counts the calls of pool.put
\* made for the wrapper; again records a Close call that came after the first;
\* below is the number of idle entries that lay under the connection when Get
\* took it (0 for a dialled one).
NewPooledConnection(id, below) ==
    [conn |-> id, once |-> FALSE, puts |-> 0, again |-> FALSE, below |-> below]

\* sync.Once: whether pc.once has already run its function
OnceNever(w) == FALSE
OnceDone(w) == wrappers[w].once

\* ------------------------------------------------------------- actions
\* A caller invokes Get on pool b; a success is wrapped in a PooledConnection.
CallGet(b) ==
    /\ Len(wrappers) < MaxWrappers
    /\ \E dialOK \in (IF Len(conns) < MaxConns THEN BOOLEAN ELSE {FALSE}) :
         LET r == Get(b, dialOK) IN
         /\ idleConns' = [idleConns EXCEPT ![b] = r.idle]
         /\ activeCount' = [activeCount EXCEPT ![b] = r.active]
         /\ conns' = r.cs
         /\ wrappers' = IF r.err = "nil"
                        THEN Append(wrappers, NewPooledConnection(r.conn, r.below))
                        ELSE wrappers
    /\ UNCHANGED <<rev, config, worker, now, closed, regVars, streamVars, healthVars, selVars, proxyVars>>

\* PooledConnection.Close: once.Do(pool.put(conn)).
PooledConnectionClose(w) ==
    IF OnceDone(w)
    THEN /\ wrappers' = [wrappers EXCEPT ![w].again = TRUE]
         /\ UNCHANGED <<idleConns, activeCount, conns>>
    ELSE \E pending \in BOOLEAN :
         LET id == wrappers[w].conn
             b == conns[id].pool
             r == put(b, id, pending) IN
         /\ idleConns' = [idleConns EXCEPT ![b] = r.idle]
         /\ activeCount' = [activeCount EXCEPT ![b] = r.active]
         /\ conns' = r.cs
         /\ wrappers' = [wrappers EXCEPT ![w].once = TRUE, ![w].puts = @ + 1]

\* A caller closes a PooledConnection it was handed (possibly once more).
CallClose(w) ==
    /\ w \in 1..Len(wrappers)
    /\ PooledConnectionClose(w)
    /\ UNCHANGED <<rev, config, worker, now, closed, regVars, streamVars, healthVars, selVars, proxyVars>>

\* One tick of periodicCleanup's ticker.
Cleanup(b) ==
    LET r == cleanup(b) IN
    /\ idleConns' = [idleConns EXCEPT ![b] = r.idle]
    /\ activeCount' = [activeCount EXCEPT ![b] = r.active]
    /\ conns' = r.cs
    /\ UNCHANGED <<rev, config, worker, now, closed, wrappers, regVars, streamVars, healthVars, selVars, proxyVars>>

PoolClose(b) ==
    LET r == ConnectionPoolClose(b) IN
    /\ closed' = [closed EXCEPT ![b] = TRUE]
    /\ idleConns' = [idleConns EXCEPT ![b] = r.idle]
    /\ activeCount' = [activeCount EXCEPT ![b] = r.active]
    /\ conns' = r.cs
    /\ UNCHANGED <<rev, config, worker, now, wrappers, regVars, streamVars, healthVars, selVars, proxyVars>>

\* The backend closes its end of an open connection.
PeerClose(id) ==
    /\ id \in 1..Len(conns)
    /\ ~conns[id].peerClosed
    /\ conns' = [conns EXCEPT ![id].peerClosed = TRUE]
    /\ UNCHANGED <<rev, config, worker, now, idleConns, activeCount, closed, wrappers, regVars, streamVars, healthVars, selVars, proxyVars>>

Tick ==
    /\ now < MaxTime
    /\ now' = now + 1
    /\ UNCHANGED <<rev, config, worker, idleConns, activeCount, closed, conns, wrappers, regVars, streamVars, healthVars, selVars, proxyVars>>

\* NewBackendPool's aliveBps: every address appended, in address order
NoBackendAlive == <<>>

AllBackendsAlive == [i \in 1..NumBackends |-> i]

\* NewBackendPool: every backend alive, each with an empty open pool, and the
\* live snapshot holding all of them in address order.
NewBackendPool ==
    /\ now = 0
    /\ idleConns = [b \in Backends |-> <<>>]
    /\ activeCount = [b \in Backends |-> 0]
    /\ closed = [b \in Backends |-> FALSE]
    /\ conns = <<>>
    /\ wrappers = <<>>
    /\ alive = [b \in Backends |-> TRUE]
    /\ aliveBackends = AllBackendsAlive

NoClient ==
    [pc |-> "accept", attempt |-> 1, tried |-> {}, snap |-> <<>>, sel |-> 0, bconn |-> 0,
     ctxDone |-> FALSE, clientReadDeadline |-> "none",
     nextCalls |-> 0, getCalls |-> [b \in Backends |-> 0], err |-> "none",
     outcome |-> "none", sent503 |-> 0]

NoGetter == [st |-> "none", b |-> 0, w |-> 0, err |-> "none"]

InitProxyVars ==
    /\ counter = 0
    /\ client = [c \in Clients |-> NoClient]
    /\ getter = [c \in Clients |-> [k \in Attempts |-> NoGetter]]

Dirs == {"c2b", "b2c"}

\* the k-th byte a peer writes to its stream is named k, so that a byte that
\* is lost, repeated or out of place shows in the sequence
NthByte(k) == k

\* buffer := make([]byte, 32*1024): BufSize zero bytes
NewBuffer == [i \in 1..BufSize |-> 0]

\* the status line sendErrorResponse writes, as one unit of the client stream
ServiceUnavailable == 503

\* no copyData goroutine has been started, nothing is in flight
InitStreamVars ==
    /\ copy = [d \in Dirs |-> [pc |-> "read", buffer |-> NewBuffer, n |-> 0, err |-> "none",
                                rd |-> <<>>]]
    /\ wire = [cSent |-> 0, cFin |-> FALSE, c2p |-> <<>>, p2b |-> <<>>, pFinB |-> FALSE,
               bEOF |-> FALSE, bSent |-> 0, bFin |-> FALSE, b2p |-> <<>>, p2c |-> <<>>,
               pFinC |-> FALSE, cRecv |-> 0, cEOF |-> FALSE, outB |-> <<>>, outC |-> <<>>,
               session |-> 1, stale |-> 0]

\* &BackendHealth{}, the zero value
ZeroHealth == [consecutiveSuccesses |-> 0, consecutiveFailures |-> 0]

\* Start: &BackendHealth{consecutiveSuccesses: hc.config.HealthyThreshold} for
\* every backend of the live snapshot
StartHealth == [consecutiveSuccesses |-> HealthyThreshold, consecutiveFailures |-> 0]

\* NewHealthChecker and Start: every backend of the live snapshot is seeded
\* with consecutiveSuccesses = HealthyThreshold; no cycle has run yet
InitHealthVars ==
    /\ hcMu = 0
    /\ poolMu = 0
    /\ backendHealth = [b \in Backends |-> StartHealth]
    /\ probe = [b \in Backends |-> [pc |-> "idle", healthy |-> FALSE, should |-> TRUE, i |-> 1, acc |-> <<>>,
                                    runS |-> 0, runF |-> 0]]
    /\ cycle = 0
    /\ loop = "first"
    /\ stop = "none"

\* NewBackendPool's two slices: allBps, which becomes pool.allBackends, and
\* aliveBps, which is stored in pool.aliveBackends; both hold every backend
NewRegistryHeap ==
    [arrays |-> <<[i \in 1..NumBackends |-> i], AllBackendsAlive>>, all |-> 1, alive |-> 2]

\* no Next() call is in progress
InitSelVars ==
    /\ caller = [p \in Callers |-> NoCaller]
    /\ returned = [b \in SelBackends |-> 0]
    /\ updates = 0
    /\ heap = NewRegistryHeap

InitPool ==
    /\ rev \in {1, 2}
    /\ config = PoolConfig
    /\ worker = StartWorkers
    /\ NewBackendPool
    /\ up = [b \in Backends |-> TRUE]
    /\ InitProxyVars
    /\ InitStreamVars
    /\ InitHealthVars
    /\ InitSelVars

\* Pools share no state, so the pool-level specification drives one of them.
NextPool ==
    \/ CallGet(1)
    \/ \E w \in 1..MaxWrappers : CallClose(w)
    \/ Cleanup(1)
    \/ PoolClose(1)
    \/ \E id \in 1..MaxConns : PeerClose(id)
    \/ Tick

SpecPool == InitPool /\ [][NextPool]_vars

\* ------------------------------------------ one caller, one pool, serially
\* A single caller uses pool 1: it calls Get only when every PooledConnection
\* it got before has been closed.  The cleanup ticker may fire, but only while
\* no idle entry has expired.
SerialGet ==
    /\ \A w \in 1..Len(wrappers) : wrappers[w].once
    /\ CallGet(1)

SerialClose == \E w \in 1..Len(wrappers) : CallClose(w)

QuietCleanup ==
    /\ \A i \in 1..Len(idleConns[1]) : ~Expired(idleConns[1][i])
    /\ Cleanup(1)

NextSerial ==
    \/ SerialGet
    \/ SerialClose
    \/ QuietCleanup
    \/ \E id \in 1..MaxConns : PeerClose(id)
    \/ Tick

SpecSerial == InitPool /\ [][NextSerial]_vars

\* PooledConnection.Close, called once per PooledConnection
FirstClose == \E w \in 1..Len(wrappers) : ~wrappers[w].once /\ CallClose(w)

\* ------------------------------------------------- periodicCleanup
\* for range ticker.C: the worker receives a tick.  The ticker is stopped only
\* by the deferred ticker.Stop(), which runs when the loop is left, and nothing
\* closes ticker.C, so the loop has no way out.
TickerFire(b) ==
    /\ worker[b] = "range"
    /\ worker' = [worker EXCEPT ![b] = "cleanup"]
    /\ UNCHANGED <<rev, config, now, idleConns, activeCount, closed, conns, wrappers, regVars, streamVars, healthVars, selVars, proxyVars>>

\* cp.cleanup() in the loop body, then back to the range
WorkerCleanup(b) ==
    LET r == cleanup(b) IN
    /\ worker[b] = "cleanup"
    /\ worker' = [worker EXCEPT ![b] = "range"]
    /\ idleConns' = [idleConns EXCEPT ![b] = r.idle]
    /\ activeCount' = [activeCount EXCEPT ![b] = r.active]
    /\ conns' = r.cs
    /\ UNCHANGED <<rev, config, now, closed, wrappers, regVars, streamVars, healthVars, selVars, proxyVars>>

NextWorker ==
    \/ CallGet(1)
    \/ FirstClose
    \/ TickerFire(1)
    \/ WorkerCleanup(1)
    \/ PoolClose(1)
    \/ \E id \in 1..MaxConns : PeerClose(id)
    \/ Tick

\* the ticker keeps firing and the worker is scheduled
FairWorker == WF_vars(TickerFire(1)) /\ WF_vars(WorkerCleanup(1))

SpecWorker == InitPool /\ [][NextWorker]_vars /\ FairWorker

\* --------------------------------------- a pool whose stack can hold two
\* The same pool with room for LifoMaxIdle idle entries and LifoMaxActive
\* connections, so that the idle stack has a top and a bottom.
LifoConfig == [maxIdle |-> LifoMaxIdle, maxActive |-> LifoMaxActive]

InitLifo ==
    /\ rev \in {1, 2}
    /\ config = LifoConfig
    /\ worker = StartWorkers
    /\ NewBackendPool
    /\ up = [b \in Backends |-> TRUE]
    /\ InitProxyVars
    /\ InitStreamVars
    /\ InitHealthVars
    /\ InitSelVars

NextLifo ==
    \/ CallGet(1)
    \/ FirstClose
    \/ Cleanup(1)
    \/ PoolClose(1)
    \/ \E id \in 1..MaxConns : PeerClose(id)
    \/ Tick

SpecLifo == InitLifo /\ [][NextLifo]_vars

\* ------------------------------------------------------ RoundRobin.Next
\* next % len(aliveBackends) on the snapshot this call loaded (1-based here)
SelectedIndexNoModulo(next, snap) == next + 1
SelectedIndex(next, snap) == (next % Len(snap)) + 1

\* rr.counter.Add(1) on an atomic.Uint64: the new value, wrapping at the width
CounterAdd(x) == (x + 1) % CounterModulus

\* LoadBalancer.GetAvailableCount: the length of the current snapshot
GetAvailableCount == Len(aliveBackends)

\* ------------------------- ConnectionHandler.getBackendConnectionWithRetry
AlreadyTriedNever(c, b) == FALSE

\* triedBackends[backendServer.Address]
AlreadyTried(c, b) == b \in client[c].tried

\* a loop whose `continue` neither counts the attempt nor tests the limit
ContinueNoLimit(cl) == [cl EXCEPT !.pc = "loop"]

AllTriedNever(cl) == FALSE

\* len(triedBackends) >= availableCount, the test before `break`
AllTried(cl) == Cardinality(cl.tried) >= GetAvailableCount

\* `continue`: attempt++ and the loop condition attempt <= maxRetries
Continue(cl) ==
    IF cl.attempt + 1 <= maxRetries
    THEN [cl EXCEPT !.attempt = @ + 1, !.pc = "loop"]
    ELSE [cl EXCEPT !.attempt = @ + 1, !.pc = "fail", !.err = "allfailed"]

\* a failed attempt sleeps retryDelay unless it was the last one
Retry(cl) == IF cl.attempt < maxRetries THEN [cl EXCEPT !.pc = "sleep"] ELSE Continue(cl)

\* HandleConnection up to the retry loop: request context, handshake deadline.
Accept(c) ==
    /\ client[c].pc = "accept"
    /\ client' = [client EXCEPT ![c].pc = "loop", ![c].clientReadDeadline = "handshake"]
    /\ UNCHANGED <<poolVars, regVars, streamVars, healthVars, selVars, counter, getter>>

\* top of the loop body: select on ctx.Done with a default
LoopHead(c) ==
    /\ client[c].pc = "loop"
    /\ client' = [client EXCEPT ![c] =
           IF @.ctxDone THEN [@ EXCEPT !.pc = "fail", !.err = "timeout"]
           ELSE [@ EXCEPT !.pc = "next"]]
    /\ UNCHANGED <<poolVars, regVars, streamVars, healthVars, selVars, counter, getter>>

\* RoundRobin.Next, first half: load the snapshot, fail if it is empty
NextLoad(c) ==
    /\ client[c].pc = "next"
    /\ client' = [client EXCEPT ![c] =
           LET cl == [@ EXCEPT !.snap = aliveBackends, !.nextCalls = @ + 1] IN
           IF Len(aliveBackends) = 0 THEN Retry(cl) ELSE [cl EXCEPT !.pc = "add"]]
    /\ UNCHANGED <<poolVars, regVars, streamVars, healthVars, selVars, counter, getter>>

\* RoundRobin.Next, second half: counter.Add(1) and index the loaded snapshot
NextAdd(c) ==
    /\ client[c].pc = "add"
    /\ counter' = CounterAdd(counter)
    /\ client' = [client EXCEPT ![c].sel = client[c].snap[SelectedIndex(CounterAdd(counter), client[c].snap)],
                                ![c].pc = "check"]
    /\ UNCHANGED <<poolVars, regVars, streamVars, healthVars, selVars, getter>>

\* the triedBackends test, and the launch of getConnectionWithContext
CheckTried(c) ==
    /\ client[c].pc = "check"
    /\ LET cl == client[c] IN
       IF AlreadyTried(c, cl.sel) THEN
           /\ client' = [client EXCEPT ![c] =
                  IF AllTried(cl)
                  THEN [cl EXCEPT !.pc = "fail", !.err = "allfailed"]
                  ELSE Retry(cl)]
           /\ UNCHANGED getter
       ELSE
           /\ client' = [client EXCEPT ![c].tried = @ \cup {cl.sel}, ![c].pc = "wait"]
           /\ getter' = [getter EXCEPT ![c][cl.attempt] =
                  [st |-> "running", b |-> cl.sel, w |-> 0, err |-> "none"]]
    /\ UNCHANGED <<poolVars, regVars, streamVars, healthVars, selVars, counter>>

\* the goroutine of getConnectionWithContext: backend.ConnectionPool.Get()
GetterGet(c, k) ==
    /\ getter[c][k].st = "running"
    /\ LET b == getter[c][k].b
           r == Get(b, up[b]) IN
       /\ idleConns' = [idleConns EXCEPT ![b] = r.idle]
       /\ activeCount' = [activeCount EXCEPT ![b] = r.active]
       /\ conns' = r.cs
       /\ wrappers' = IF r.err = "nil"
                      THEN Append(wrappers, NewPooledConnection(r.conn, r.below))
                      ELSE wrappers
       /\ getter' = [getter EXCEPT ![c][k].st = "got", ![c][k].err = r.err,
                        ![c][k].w = IF r.err = "nil" THEN Len(wrappers) + 1 ELSE 0]
       /\ client' = [client EXCEPT ![c].getCalls[b] = @ + 1]
    /\ UNCHANGED <<rev, config, worker, now, closed, regVars, streamVars, healthVars, selVars, counter>>

\* the goroutine's select: the buffered resultChan is always ready
GetterSend(c, k) ==
    /\ getter[c][k].st = "got"
    /\ getter' = [getter EXCEPT ![c][k].st = "sent"]
    /\ UNCHANGED <<poolVars, regVars, streamVars, healthVars, selVars, counter, client>>

\* the goroutine's select: ctx.Done is ready too and is the case chosen
GetterDrop(c, k) ==
    /\ getter[c][k].st = "got"
    /\ client[c].ctxDone
    /\ getter' = [getter EXCEPT ![c][k].st = "dropped"]
    /\ IF getter[c][k].w # 0 THEN PooledConnectionClose(getter[c][k].w)
       ELSE UNCHANGED <<idleConns, activeCount, conns, wrappers>>
    /\ UNCHANGED <<rev, config, worker, now, closed, regVars, streamVars, healthVars, selVars, counter, client>>

\* getConnectionWithContext's select: the result arrives
RecvResult(c) ==
    /\ client[c].pc = "wait"
    /\ LET k == client[c].attempt IN
       /\ getter[c][k].st = "sent"
       /\ getter' = [getter EXCEPT ![c][k].st = "recvd"]
       /\ client' = [client EXCEPT ![c] =
              IF getter[c][k].err = "nil"
              THEN [@ EXCEPT !.bconn = getter[c][k].w, !.pc = "stream"]
              ELSE Retry(@)]
    /\ UNCHANGED <<poolVars, regVars, streamVars, healthVars, selVars, counter>>

\* getConnectionWithContext's select: time.After(timeout) fires first
ConnectTimeout(c) ==
    /\ client[c].pc = "wait"
    /\ client' = [client EXCEPT ![c] = Retry(@)]
    /\ UNCHANGED <<poolVars, regVars, streamVars, healthVars, selVars, counter, getter>>

\* getConnectionWithContext's select: ctx.Done
CtxDoneWait(c) ==
    /\ client[c].pc = "wait"
    /\ client[c].ctxDone
    /\ client' = [client EXCEPT ![c] = Retry(@)]
    /\ UNCHANGED <<poolVars, regVars, streamVars, healthVars, selVars, counter, getter>>

\* sleepWithContext returns (timer or ctx.Done), then `continue`
Sleep(c) ==
    /\ client[c].pc = "sleep"
    /\ client' = [client EXCEPT ![c] = Continue(@)]
    /\ UNCHANGED <<poolVars, regVars, streamVars, healthVars, selVars, counter, getter>>

\* setProxyTimeouts, both copyData goroutines, waitGroup.Wait
Stream(c) ==
    /\ client[c].pc = "stream"
    /\ client' = [client EXCEPT ![c].pc = "teardown", ![c].clientReadDeadline = "idle"]
    /\ UNCHANGED <<poolVars, regVars, streamVars, healthVars, selVars, counter, getter>>

\* backendConnection.Close(), clientConnection.Close(), deferred cancel()
Teardown(c) ==
    /\ client[c].pc = "teardown"
    /\ PooledConnectionClose(client[c].bconn)
    /\ client' = [client EXCEPT ![c].pc = "done", ![c].outcome = "proxied", ![c].ctxDone = TRUE]
    /\ wire' = [wire EXCEPT !.pFinC = TRUE]
    /\ UNCHANGED <<rev, config, worker, now, closed, regVars, copy, healthVars, selVars, counter, getter>>

\* sendErrorResponse, clientConnection.Close(), deferred cancel()
Fail503(c) ==
    /\ client[c].pc = "fail"
    /\ client' = [client EXCEPT ![c].pc = "done", ![c].outcome = "503",
                                ![c].sent503 = @ + 1, ![c].ctxDone = TRUE]
    /\ wire' = [wire EXCEPT !.pFinC = TRUE, !.outC = Append(@, ServiceUnavailable)]
    /\ UNCHANGED <<poolVars, regVars, copy, healthVars, selVars, counter, getter>>

\* the requestTimeout deadline of the request context fires
DeadlineFires(c) ==
    /\ client[c].pc \notin {"accept", "done"}
    /\ ~client[c].ctxDone
    /\ client' = [client EXCEPT ![c].ctxDone = TRUE]
    /\ UNCHANGED <<poolVars, regVars, streamVars, healthVars, selVars, counter, getter>>

\* another client's HandleConnection calls RoundRobin.Next
OtherNext ==
    /\ counter < MaxCounter
    /\ counter' = CounterAdd(counter)
    /\ UNCHANGED <<poolVars, regVars, streamVars, healthVars, selVars, client, getter>>

\* Pool.Close: ConnectionPool.Close on every backend, in allBackends order
RegistryClose ==
    /\ \E b \in Backends : ~closed[b]
    /\ closed' = [b \in Backends |-> TRUE]
    /\ idleConns' = [b \in Backends |-> ConnectionPoolClose(b).idle]
    /\ conns' = CloseConns(conns, UNION {IdleIds(b) : b \in Backends})
    /\ UNCHANGED <<rev, config, worker, now, activeCount, wrappers, regVars, streamVars, healthVars, selVars, counter, client, getter>>

InitProxy ==
    /\ rev \in {1, 2}
    /\ config = PoolConfig
    /\ worker = StartWorkers
    /\ NewBackendPool
    /\ up \in [Backends -> BOOLEAN]
    /\ InitProxyVars
    /\ InitStreamVars
    /\ InitHealthVars
    /\ InitSelVars

NextProxy ==
    \/ \E c \in Clients : Accept(c)
    \/ \E c \in Clients : LoopHead(c)
    \/ \E c \in Clients : NextLoad(c)
    \/ \E c \in Clients : NextAdd(c)
    \/ \E c \in Clients : CheckTried(c)
    \/ \E c \in Clients, k \in Attempts : GetterGet(c, k)
    \/ \E c \in Clients, k \in Attempts : GetterSend(c, k)
    \/ \E c \in Clients, k \in Attempts : GetterDrop(c, k)
    \/ \E c \in Clients : RecvResult(c)
    \/ \E c \in Clients : ConnectTimeout(c)
    \/ \E c \in Clients : CtxDoneWait(c)
    \/ \E c \in Clients : Sleep(c)
    \/ \E c \in Clients : Stream(c)
    \/ \E c \in Clients : Teardown(c)
    \/ \E c \in Clients : Fail503(c)
    \/ \E c \in Clients : DeadlineFires(c)
    \/ OtherNext
    \/ RegistryClose

SpecProxy == InitProxy /\ [][NextProxy]_vars

\* ------------------------------------------- the handshake read deadline
\* clientConnection.SetReadDeadline(time.Now().Add(ch.handshakeTimeout)): the
\* instant of the deadline passes.  A read deadline makes a Read that is
\* pending or comes later fail; HandleConnection calls no Read on the client
\* connection before setProxyTimeouts replaces the deadline, so nothing
\* follows from its passing.
HandshakeDeadlinePasses(c) ==
    /\ client[c].clientReadDeadline = "handshake"
    /\ client' = [client EXCEPT ![c].clientReadDeadline = "passed"]
    /\ UNCHANGED <<poolVars, regVars, streamVars, healthVars, selVars, counter, getter>>

NextHandshake ==
    \/ NextProxy
    \/ \E c \in Clients : HandshakeDeadlinePasses(c)

SpecHandshake == InitProxy /\ [][NextHandshake]_vars

\* ------------------------------------------------------------ copyData
\* The streaming phase of one request: copyData(backendConnection,
\* clientConnection) is direction "b2c", copyData(clientConnection,
\* backendConnection) is direction "c2b".
SrcAvail(d) == IF d = "c2b" THEN wire.c2p ELSE wire.b2p
SrcFin(d) == IF d = "c2b" THEN wire.cFin ELSE wire.bFin

\* target.(*net.TCPConn): the client connection is the *net.TCPConn the TCP
\* listener accepted; the backend connection is a *backend.PooledConnection.
TargetIsTCPConn(d) == d = "b2c"

\* tcpConnection.CloseWrite() on the target of direction d
CloseWrite(w, d) == IF d = "b2c" THEN [w EXCEPT !.pFinC = TRUE] ELSE [w EXCEPT !.pFinB = TRUE]

\* the loop is left with err; the target is half-closed only if it is a TCPConn
Finish(d, err) ==
    /\ copy' = [copy EXCEPT ![d].pc = "done", ![d].n = 0, ![d].err = err]
    /\ wire' = IF TargetIsTCPConn(d) THEN CloseWrite(wire, d) ELSE wire

Min(a, b) == IF a < b THEN a ELSE b

\* source.Read(buffer) stores the n bytes it returns in buffer[0:n] and leaves
\* the rest of the buffer as it was
ReadInto(buffer, chunk) ==
    [i \in 1..Len(buffer) |-> IF i <= Len(chunk) THEN chunk[i] ELSE buffer[i]]

\* buffer[:n], the argument of target.Write
BufferWhole(buffer, n) == buffer

BufferSlice(buffer, n) == SubSeq(buffer, 1, n)

\* the backend connection of the session has been closed on the proxy's side
\* (a connection that was closed when it went back to the pool and was handed
\* out again): Read and Write on it fail at once
BackendConnClosed(c) == conns[wrappers[client[c].bconn].conn].fdClosed

\* source.Read returns: n > 0 bytes, at most the buffer's size, or io.EOF once
\* the peer's FIN is reached
CopyRead(c, d) ==
    /\ client[c].pc = "stream"
    /\ copy[d].pc = "read"
    /\ Len(SrcAvail(d)) > 0 \/ SrcFin(d) \/ (d = "b2c" /\ BackendConnClosed(c))
    /\ IF d = "b2c" /\ BackendConnClosed(c)
       THEN Finish(d, "closed")
       ELSE IF Len(SrcAvail(d)) > 0
       THEN \E n \in 1..Min(Len(SrcAvail(d)), BufSize) :
              LET chunk == SubSeq(SrcAvail(d), 1, n)
                  rest == SubSeq(SrcAvail(d), n + 1, Len(SrcAvail(d)))
              IN /\ copy' = [copy EXCEPT ![d].pc = "write", ![d].n = n,
                                         ![d].buffer = ReadInto(@, chunk),
                                         ![d].rd = @ \o chunk]
                 /\ wire' = IF d = "c2b" THEN [wire EXCEPT !.c2p = rest]
                            ELSE [wire EXCEPT !.b2p = rest]
       ELSE Finish(d, "EOF")
    /\ UNCHANGED <<poolVars, regVars, proxyVars, healthVars, selVars>>

\* source.Read returns a timeout: nothing arrived within the read deadline
ReadDeadline(c, d) ==
    /\ client[c].pc = "stream"
    /\ copy[d].pc = "read"
    /\ ~(d = "b2c" /\ BackendConnClosed(c))
    /\ Len(SrcAvail(d)) = 0
    /\ ~SrcFin(d)
    /\ Finish(d, "timeout")
    /\ UNCHANGED <<poolVars, regVars, proxyVars, healthVars, selVars>>

\* target.Write(buffer[:n]); writing to a backend that has closed may fail
CopyWrite(c, d) ==
    /\ client[c].pc = "stream"
    /\ copy[d].pc = "write"
    /\ \E ok \in (IF d = "c2b" /\ BackendConnClosed(c) THEN {FALSE}
                  ELSE IF d = "c2b" /\ wire.bFin THEN BOOLEAN ELSE {TRUE}) :
         IF ok
         THEN LET out == BufferSlice(copy[d].buffer, copy[d].n)
              IN /\ copy' = [copy EXCEPT ![d].pc = "read", ![d].n = 0]
                 /\ wire' = IF d = "c2b"
                            THEN [wire EXCEPT !.p2b = @ \o out, !.outB = @ \o out]
                            ELSE [wire EXCEPT !.p2c = @ \o out, !.outC = @ \o out]
         ELSE Finish(d, "write")
    /\ UNCHANGED <<poolVars, regVars, proxyVars, healthVars, selVars>>

\* the WaitGroup's counter, set by waitGroup.Add(2), has come down to zero:
\* each copyData has run its deferred waitGroup.Done()
WaitGroupOneDone == \E d \in Dirs : copy[d].pc = "done"

WaitGroupZero == \A d \in Dirs : copy[d].pc = "done"

\* waitGroup.Wait returns once both copyData goroutines are done
WaitGroupWait(c) ==
    /\ client[c].pc = "stream"
    /\ WaitGroupZero
    /\ client' = [client EXCEPT ![c].pc = "teardown"]
    /\ UNCHANGED <<poolVars, regVars, counter, getter, streamVars, healthVars, selVars>>

\* ------------------------------------------------ the two TCP peers
ClientWrite ==
    /\ ~wire.cFin
    /\ wire.cSent < MaxBytes
    /\ wire' = [wire EXCEPT !.cSent = @ + 1, !.c2p = Append(@, NthByte(wire.cSent + 1))]
    /\ UNCHANGED <<poolVars, regVars, proxyVars, copy, healthVars, selVars>>

\* the client closes its write side
ClientCloseWrite ==
    /\ ~wire.cFin
    /\ wire' = [wire EXCEPT !.cFin = TRUE]
    /\ UNCHANGED <<poolVars, regVars, proxyVars, copy, healthVars, selVars>>

\* the client reads what the proxy wrote, then EOF after the proxy's FIN
ClientRead ==
    /\ ~wire.cEOF
    /\ Len(wire.p2c) > 0 \/ wire.pFinC
    /\ wire' = IF Len(wire.p2c) > 0 THEN [wire EXCEPT !.cRecv = @ + Len(wire.p2c), !.p2c = <<>>]
               ELSE [wire EXCEPT !.cEOF = TRUE]
    /\ UNCHANGED <<poolVars, regVars, proxyVars, copy, healthVars, selVars>>

\* the backend reads what the proxy wrote; it reads EOF once the proxy has
\* half-closed or closed the connection
BackendRead(c) ==
    /\ ~wire.bEOF
    /\ Len(wire.p2b) > 0 \/ wire.pFinB \/ conns[wrappers[client[c].bconn].conn].fdClosed
    /\ wire' = IF Len(wire.p2b) > 0 THEN [wire EXCEPT !.p2b = <<>>] ELSE [wire EXCEPT !.bEOF = TRUE]
    /\ UNCHANGED <<poolVars, regVars, proxyVars, copy, healthVars, selVars>>

BackendWrite ==
    /\ ~wire.bFin
    /\ wire.bSent < MaxBytes
    /\ wire' = [wire EXCEPT !.bSent = @ + 1, !.b2p = Append(@, NthByte(wire.bSent + 1))]
    /\ UNCHANGED <<poolVars, regVars, proxyVars, copy, healthVars, selVars>>

\* the backend closes the connection
BackendClose(c) ==
    /\ ~wire.bFin
    /\ wire' = [wire EXCEPT !.bFin = TRUE]
    /\ conns' = [conns EXCEPT ![wrappers[client[c].bconn].conn].peerClosed = TRUE]
    /\ UNCHANGED <<rev, config, worker, now, idleConns, activeCount, closed, wrappers, regVars, proxyVars,
                   copy, healthVars, selVars>>

\* HandleConnection has just obtained a connection to backend StreamBackend on
\* its first attempt and started both copyData goroutines.
StreamBackend == SelectedIndex(1, [i \in 1..NumBackends |-> i])

InitStream ==
    /\ rev \in {1, 2}
    /\ config = PoolConfig
    /\ worker = StartWorkers
    /\ now = 0
    /\ idleConns = [b \in Backends |-> <<>>]
    /\ activeCount = [b \in Backends |-> IF b = StreamBackend THEN 1 ELSE 0]
    /\ closed = [b \in Backends |-> FALSE]
    /\ conns = <<[pool |-> StreamBackend, fdClosed |-> FALSE, peerClosed |-> FALSE]>>
    /\ wrappers = <<NewPooledConnection(1, 0)>>
    /\ up = [b \in Backends |-> TRUE]
    /\ alive = [b \in Backends |-> TRUE]
    /\ aliveBackends = [i \in 1..NumBackends |-> i]
    /\ counter = 1
    /\ client = [c \in Clients |->
           [NoClient EXCEPT !.pc = "stream", !.clientReadDeadline = "idle",
                            !.tried = {StreamBackend},
                            !.snap = aliveBackends, !.sel = StreamBackend, !.bconn = 1,
                            !.nextCalls = 1, !.getCalls[StreamBackend] = 1]]
    /\ getter = [c \in Clients |-> [k \in Attempts |->
           IF k = 1 THEN [st |-> "recvd", b |-> StreamBackend, w |-> 1, err |-> "nil"]
           ELSE NoGetter]]
    /\ InitStreamVars
    /\ InitHealthVars
    /\ InitSelVars

NextStream ==
    \/ \E c \in Clients, d \in Dirs : CopyRead(c, d)
    \/ \E c \in Clients, d \in Dirs : ReadDeadline(c, d)
    \/ \E c \in Clients, d \in Dirs : CopyWrite(c, d)
    \/ \E c \in Clients : WaitGroupWait(c)
    \/ \E c \in Clients : Teardown(c)
    \/ ClientWrite
    \/ ClientCloseWrite
    \/ ClientRead
    \/ \E c \in Clients : BackendRead(c)
    \/ BackendWrite
    \/ \E c \in Clients : BackendClose(c)

SpecStream == InitStream /\ [][NextStream]_vars

\* ------------------------------------ one session after the other
\* HandleConnection's teardown when the backend's unread bytes are known:
\* validateConnection's one-byte Read finds data exactly when some is unread
SessionTeardown(c) ==
    /\ client[c].pc = "teardown"
    /\ LET w == client[c].bconn
           id == wrappers[w].conn
           b == conns[id].pool
           r == put(b, id, Len(wire.b2p) > 0) IN
       /\ ~OnceDone(w)
       /\ idleConns' = [idleConns EXCEPT ![b] = r.idle]
       /\ activeCount' = [activeCount EXCEPT ![b] = r.active]
       /\ conns' = r.cs
       /\ wrappers' = [wrappers EXCEPT ![w].once = TRUE, ![w].puts = @ + 1]
    /\ client' = [client EXCEPT ![c].pc = "done", ![c].outcome = "proxied", ![c].ctxDone = TRUE]
    /\ wire' = [wire EXCEPT !.pFinC = TRUE]
    /\ UNCHANGED <<rev, config, worker, now, closed, regVars, copy, healthVars, selVars, counter, getter>>

\* the client side of wire w as a newly accepted client connection has it
FreshClientSide(w) ==
    [w EXCEPT !.cSent = 0, !.cFin = FALSE, !.c2p = <<>>, !.p2c = <<>>, !.pFinC = FALSE,
              !.cRecv = 0, !.cEOF = FALSE, !.outC = <<>>, !.outB = <<>>]

\* the backend side of wire w as a newly dialled backend connection has it
FreshBackendSide(w) ==
    [w EXCEPT !.p2b = <<>>, !.pFinB = FALSE, !.bEOF = FALSE, !.bSent = 0, !.bFin = FALSE,
              !.b2p = <<>>]

\* The next client is accepted once the session before is over; its
\* HandleConnection gets a connection to the same backend from the pool and
\* starts both copyData goroutines.  A connection taken from the idle stack is
\* the TCP connection of the session before: what the backend has written to
\* it and the proxy has not read is still there, and stale counts the bytes
\* the backend wrote to it before this session began.
NextSession(c) ==
    /\ client[c].pc = "done"
    /\ wire.session < MaxSessions
    /\ \E dialOK \in (IF Len(conns) < MaxConns THEN BOOLEAN ELSE {FALSE}) :
         LET r == Get(StreamBackend, dialOK) IN
         /\ r.err = "nil"
         /\ idleConns' = [idleConns EXCEPT ![StreamBackend] = r.idle]
         /\ activeCount' = [activeCount EXCEPT ![StreamBackend] = r.active]
         /\ conns' = r.cs
         /\ wrappers' = Append(wrappers, NewPooledConnection(r.conn, r.below))
         /\ client' = [client EXCEPT ![c].pc = "stream", ![c].bconn = Len(wrappers) + 1,
                                      ![c].outcome = "none", ![c].ctxDone = FALSE]
         /\ wire' = IF r.dialed
                    THEN [FreshBackendSide(FreshClientSide(wire)) EXCEPT
                             !.session = @ + 1, !.stale = 0]
                    ELSE [FreshClientSide(wire) EXCEPT !.session = @ + 1, !.stale = wire.bSent]
    /\ copy' = [d \in Dirs |-> [pc |-> "read", buffer |-> NewBuffer, n |-> 0, err |-> "none",
                                 rd |-> <<>>]]
    /\ UNCHANGED <<rev, config, worker, now, closed, regVars, counter, getter, healthVars, selVars>>

NextReuse ==
    \/ \E c \in Clients, d \in Dirs : CopyRead(c, d)
    \/ \E c \in Clients, d \in Dirs : ReadDeadline(c, d)
    \/ \E c \in Clients, d \in Dirs : CopyWrite(c, d)
    \/ \E c \in Clients : WaitGroupWait(c)
    \/ \E c \in Clients : SessionTeardown(c)
    \/ \E c \in Clients : NextSession(c)
    \/ ClientWrite
    \/ ClientCloseWrite
    \/ ClientRead
    \/ \E c \in Clients : BackendRead(c)
    \/ BackendWrite
    \/ \E c \in Clients : BackendClose(c)

SpecReuse == InitStream /\ [][NextReuse]_vars

\* The goroutines of the request are scheduled: a Read that can return does, a
\* Read with nothing to return runs into its read deadline, a Write returns,
\* and HandleConnection goes on once waitGroup.Wait returns.
FairStream ==
    /\ \A c \in Clients, d \in Dirs :
          /\ WF_vars(CopyRead(c, d))
          /\ WF_vars(ReadDeadline(c, d))
          /\ WF_vars(CopyWrite(c, d))
    /\ \A c \in Clients : WF_vars(WaitGroupWait(c)) /\ WF_vars(Teardown(c))

SpecTeardown == InitStream /\ [][NextStream]_vars /\ FairStream

\* -------------------------------------------------------- HealthChecker
\* Backend.IsAlive.  evaluateBackendStatus reads and writes the flag as
\* backend.Alive and updateBackendStatus writes it again through SetAlive;
\* both name the one liveness flag of the backend.
IsAliveAlways(b) == TRUE
IsAlive(b) == alive[b]

\* hc.mu.Lock() can proceed
HcMuAlwaysFree == TRUE
HcMuFree == hcMu = 0

\* the callers that hold pool.mu for reading: inside GetAllBackends or Close
RLockHolders == {p \in Callers : caller[p].pc \in {"rlockedAll", "rlockedClose"}}

\* pool.mu.Lock() can proceed: no writer and no reader holds the RWMutex
PoolMuFree == poolMu = 0 /\ RLockHolders = {}

\* a probe is blocked in pool.mu.Lock()
WriterWaiting == \E b \in Backends : probe[b].pc = "update"

\* pool.mu.RLock() can proceed: no writer holds the RWMutex and none is
\* waiting for it (a sync.RWMutex holds new readers back behind a pending
\* Lock)
RLockFree == poolMu = 0 /\ ~WriterWaiting

\* what hc.mu holds after checkBackend's deferred hc.mu.Unlock()
HcMuKept(b) == b

HcMuUnlock(b) == 0

\* checkBackend's counter update
RecordCheck(h, healthy) ==
    IF healthy
    THEN [consecutiveSuccesses |-> h.consecutiveSuccesses + 1, consecutiveFailures |-> 0]
    ELSE [consecutiveSuccesses |-> 0, consecutiveFailures |-> h.consecutiveFailures + 1]

ShouldBeAliveNoHysteresis(currentlyAlive, h) == h.consecutiveSuccesses > 0

\* evaluateBackendStatus: shouldBeAlive from currentlyAlive and the counters
ShouldBeAlive(currentlyAlive, h) ==
    IF ~currentlyAlive /\ h.consecutiveSuccesses >= HealthyThreshold THEN TRUE
    ELSE IF currentlyAlive /\ h.consecutiveFailures >= UnhealthyThreshold THEN FALSE
    ELSE currentlyAlive

\* <-hc.ctx.Done() is ready once Stop has called hc.cancel()
CtxDone == stop # "none"

\* hc.wg.Wait() in Stop returns once healthCheckLoop has run its deferred
\* hc.wg.Done()
WgWaitNoJoin == TRUE

WgWait == loop = "done"

\* checkAllBackends up to wg.Wait: one checkBackend goroutine per backend.
\* healthCheckLoop calls it once on entry and then on every tick of the
\* ticker; the select may take the ticker's case although the context is done.
CheckAllBackends ==
    /\ cycle < MaxCycles
    /\ loop \in {"first", "select"}
    /\ cycle' = cycle + 1
    /\ loop' = "cycle"
    /\ probe' = [b \in Backends |-> [probe[b] EXCEPT !.pc = "dial"]]
    /\ UNCHANGED <<poolVars, regVars, proxyVars, streamVars, hcMu, poolMu, backendHealth, stop, selVars>>

\* checkAllBackends returns: wg.Wait has joined every checkBackend goroutine
CheckAllBackendsReturn ==
    /\ loop = "cycle"
    /\ \A b \in Backends : probe[b].pc = "idle"
    /\ loop' = "select"
    /\ UNCHANGED <<poolVars, regVars, proxyVars, streamVars, hcMu, poolMu, backendHealth, probe,
                   cycle, stop, selVars>>

\* healthCheckLoop takes the case <-hc.ctx.Done(): return, ticker.Stop(),
\* hc.wg.Done()
LoopReturn ==
    /\ loop = "select"
    /\ CtxDone
    /\ loop' = "done"
    /\ UNCHANGED <<poolVars, regVars, proxyVars, streamVars, hcMu, poolMu, backendHealth, probe,
                   cycle, stop, selVars>>

\* HealthChecker.Stop: hc.cancel()
StopCancel ==
    /\ stop = "none"
    /\ stop' = "wait"
    /\ UNCHANGED <<poolVars, regVars, proxyVars, streamVars, hcMu, poolMu, backendHealth, probe,
                   cycle, loop, selVars>>

\* HealthChecker.Stop: hc.wg.Wait() returns, Stop returns
StopReturn ==
    /\ stop = "wait"
    /\ WgWait
    /\ stop' = "returned"
    /\ UNCHANGED <<poolVars, regVars, proxyVars, streamVars, hcMu, poolMu, backendHealth, probe,
                   cycle, loop, selVars>>

\* isBackendHealthy: net.DialTimeout to the backend, which answers or not.
\* runS / runF record the length of the run of successes / failures that the
\* backend's probe outcomes currently end in.
ProbeDial(b) ==
    /\ probe[b].pc = "dial"
    /\ \E ok \in BOOLEAN :
         /\ up' = [up EXCEPT ![b] = ok]
         /\ probe' = [probe EXCEPT ![b].healthy = ok,
                                   ![b].pc = IF ok THEN "lock" ELSE "storeErr",
                                   ![b].runS = IF ok THEN @ + 1 ELSE 0,
                                   ![b].runF = IF ok THEN 0 ELSE @ + 1]
    /\ UNCHANGED <<poolVars, alive, aliveBackends, proxyVars, streamVars, hcMu, poolMu,
                   backendHealth, cycle, loop, stop, selVars>>

\* storeLastError: hc.mu held for the assignment of lastError
StoreLastError(b) ==
    /\ probe[b].pc = "storeErr"
    /\ HcMuFree
    /\ probe' = [probe EXCEPT ![b].pc = "lock"]
    /\ UNCHANGED <<poolVars, regVars, proxyVars, streamVars, hcMu, poolMu, backendHealth, cycle, loop, stop, selVars>>

\* checkBackend from hc.mu.Lock() to evaluateBackendStatus's
\* backend.Alive = shouldBeAlive
CheckBackend(b) ==
    /\ probe[b].pc = "lock"
    /\ HcMuFree
    /\ hcMu' = b
    /\ LET h == RecordCheck(backendHealth[b], probe[b].healthy)
           should == ShouldBeAlive(IsAlive(b), h) IN
       /\ backendHealth' = [backendHealth EXCEPT ![b] = h]
       /\ alive' = [alive EXCEPT ![b] = should]
       /\ probe' = [probe EXCEPT ![b].should = should,
                                 ![b].pc = IF should # IsAlive(b) THEN "update" ELSE "unlock"]
    /\ UNCHANGED <<poolVars, up, aliveBackends, proxyVars, streamVars, poolMu, cycle, loop, stop, selVars>>

\* updateBackendStatus: pool.mu.Lock(), find the backend, SetAlive(alive)
UpdateSetAlive(b) ==
    /\ probe[b].pc = "update"
    /\ PoolMuFree
    /\ poolMu' = b
    /\ alive' = [alive EXCEPT ![b] = probe[b].should]
    /\ probe' = [probe EXCEPT ![b].pc = "rebuild", ![b].i = 1, ![b].acc = <<>>]
    /\ UNCHANGED <<poolVars, up, aliveBackends, proxyVars, streamVars, hcMu, backendHealth, cycle, loop, stop, selVars>>

\* updateBackendStatus: one iteration of the loop that rebuilds aliveBackends
UpdateRebuild(b) ==
    /\ probe[b].pc = "rebuild"
    /\ probe[b].i <= NumBackends
    /\ probe' = [probe EXCEPT ![b].i = @ + 1,
                              ![b].acc = IF IsAlive(probe[b].i) THEN Append(@, probe[b].i) ELSE @]
    /\ UNCHANGED <<poolVars, regVars, proxyVars, streamVars, hcMu, poolMu, backendHealth, cycle, loop, stop, selVars>>

\* updateBackendStatus: aliveBackends.Store and the deferred pool.mu.Unlock()
UpdateStore(b) ==
    /\ probe[b].pc = "rebuild"
    /\ probe[b].i > NumBackends
    /\ aliveBackends' = probe[b].acc
    /\ poolMu' = 0
    /\ probe' = [probe EXCEPT ![b].pc = "updated"]
    /\ UNCHANGED <<poolVars, up, alive, proxyVars, streamVars, hcMu, backendHealth, cycle, loop, stop, selVars>>

\* checkBackend returns: deferred hc.mu.Unlock(), then wg.Done()
CheckBackendReturn(b) ==
    /\ probe[b].pc \in {"unlock", "updated"}
    /\ hcMu' = HcMuUnlock(b)
    /\ probe' = [probe EXCEPT ![b].pc = "idle"]
    /\ UNCHANGED <<poolVars, regVars, proxyVars, streamVars, poolMu, backendHealth, cycle, loop, stop, selVars>>

InitHealth ==
    /\ rev = 2    \* the checker never touches a connection pool
    /\ config = PoolConfig
    /\ worker = StartWorkers
    /\ NewBackendPool
    /\ up = [b \in Backends |-> TRUE]
    /\ InitProxyVars
    /\ InitStreamVars
    /\ InitHealthVars
    /\ InitSelVars

NextHealth ==
    \/ CheckAllBackends
    \/ CheckAllBackendsReturn
    \/ \E b \in Backends : ProbeDial(b)
    \/ \E b \in Backends : StoreLastError(b)
    \/ \E b \in Backends : CheckBackend(b)
    \/ \E b \in Backends : UpdateSetAlive(b)
    \/ \E b \in Backends : UpdateRebuild(b)
    \/ \E b \in Backends : UpdateStore(b)
    \/ \E b \in Backends : CheckBackendReturn(b)

SpecHealth == InitHealth /\ [][NextHealth]_vars

\* Scheduling: a checkBackend goroutine that can take a step takes it
\* (net.DialTimeout is bounded by config.Timeout, mutexes are released by
\* deferred unlocks), wg.Wait returns once its counter is zero, and a select
\* whose ctx.Done() case stays ready takes it eventually (Go chooses among
\* the ready cases uniformly at random).  The loop's first call of
\* checkAllBackends is a step of the goroutine; neither a tick of the ticker
\* nor the call of Stop is forced to happen.
FirstCheckAllBackends == loop = "first" /\ CheckAllBackends

FairHealth ==
    /\ WF_vars(FirstCheckAllBackends)
    /\ \A b \in Backends :
          /\ WF_vars(ProbeDial(b))
          /\ WF_vars(StoreLastError(b))
          /\ WF_vars(CheckBackend(b))
          /\ WF_vars(UpdateSetAlive(b))
          /\ WF_vars(UpdateRebuild(b))
          /\ WF_vars(UpdateStore(b))
          /\ WF_vars(CheckBackendReturn(b))
    /\ WF_vars(CheckAllBackendsReturn)
    /\ SF_vars(LoopReturn)
    /\ WF_vars(StopReturn)

\* The checker from Start to the return of Stop.  The count of cycles starts
\* at MaxCycles - MaxStopCycles, so that a run holds at most MaxStopCycles
\* cycles.
InitStop ==
    /\ rev = 2    \* the checker never touches a connection pool
    /\ config = PoolConfig
    /\ worker = StartWorkers
    /\ NewBackendPool
    /\ up = [b \in Backends |-> TRUE]
    /\ InitProxyVars
    /\ InitStreamVars
    /\ hcMu = 0
    /\ poolMu = 0
    /\ backendHealth = [b \in Backends |-> StartHealth]
    /\ probe = [b \in Backends |-> [pc |-> "idle", healthy |-> FALSE, should |-> TRUE, i |-> 1,
                                    acc |-> <<>>, runS |-> 0, runF |-> 0]]
    /\ cycle = MaxCycles - MaxStopCycles
    /\ loop = "first"
    /\ stop = "none"
    /\ InitSelVars

NextStop ==
    \/ NextHealth
    \/ LoopReturn
    \/ StopCancel
    \/ StopReturn

SpecStop == InitStop /\ [][NextStop]_vars /\ FairHealth

\* ------------------------------ the checker's locks and the registry's
\* The health checker runs its cycles while other goroutines read the
\* registry (GetAliveBackends, GetAllBackends), one calls Pool.Close and one
\* calls HealthChecker.Stop.
\* GetAliveBackends is an atomic load that takes no lock, so a caller of it
\* is never made to wait and is left out.  Reader is the goroutine that calls
\* GetAllBackends, Closer the one that calls Pool.Close.
Reader == 1
Closer == 2

\* GetAllBackends: pool.mu.RLock()
AllBackendsRLock(p) ==
    /\ caller[p].pc = "idle"
    /\ RLockFree
    /\ caller' = [caller EXCEPT ![p].pc = "rlockedAll"]
    /\ UNCHANGED <<poolVars, regVars, proxyVars, streamVars, healthVars, returned, updates, heap>>

\* GetAllBackends: the copy and the deferred pool.mu.RUnlock()
AllBackendsReturn(p) ==
    /\ caller[p].pc = "rlockedAll"
    /\ caller' = [caller EXCEPT ![p].pc = "idle"]
    /\ UNCHANGED <<poolVars, regVars, proxyVars, streamVars, healthVars, returned, updates, heap>>

\* Pool.Close: pool.mu.RLock(); called once, by cleanUp
PoolCloseRLock(p) ==
    /\ caller[p].pc = "idle"
    /\ \A q \in Callers : caller[q].pc # "rlockedClose"
    /\ \A b \in Backends : ~closed[b]
    /\ RLockFree
    /\ caller' = [caller EXCEPT ![p].pc = "rlockedClose"]
    /\ UNCHANGED <<poolVars, regVars, proxyVars, streamVars, healthVars, returned, updates, heap>>

\* Pool.Close: backend.ConnectionPool.Close() on the next backend of
\* pool.allBackends, under that pool's own mutex
PoolCloseNext(p) ==
    /\ caller[p].pc = "rlockedClose"
    /\ \E b \in Backends :
         /\ ~closed[b]
         /\ \A o \in Backends : o < b => closed[o]
         /\ closed' = [closed EXCEPT ![b] = TRUE]
         /\ idleConns' = [idleConns EXCEPT ![b] = ConnectionPoolClose(b).idle]
         /\ conns' = ConnectionPoolClose(b).cs
    /\ UNCHANGED <<rev, config, worker, now, activeCount, wrappers, regVars, proxyVars, streamVars, healthVars, selVars>>

\* Pool.Close returns: the deferred pool.mu.RUnlock()
PoolCloseReturn(p) ==
    /\ caller[p].pc = "rlockedClose"
    /\ \A b \in Backends : closed[b]
    /\ caller' = [caller EXCEPT ![p].pc = "idle"]
    /\ UNCHANGED <<poolVars, regVars, proxyVars, streamVars, healthVars, returned, updates, heap>>

\* the counters of a backend after the cycles so far: probed successfully in
\* every one of them, or in all but the last UnhealthyThreshold - 1
HealthAfter(n, ok) ==
    IF ok THEN [consecutiveSuccesses |-> HealthyThreshold + n, consecutiveFailures |-> 0]
    ELSE [consecutiveSuccesses |-> 0, consecutiveFailures |-> UnhealthyThreshold - 1]

\* The checker has run all its cycles but the last, and no backend has been
\* demoted yet; nobody holds a lock.
InitLocks ==
    /\ rev = 2
    /\ config = PoolConfig
    /\ worker = StartWorkers
    /\ NewBackendPool
    /\ up = [b \in Backends |-> TRUE]
    /\ InitProxyVars
    /\ InitStreamVars
    /\ hcMu = 0
    /\ poolMu = 0
    /\ cycle = MaxCycles - 1
    /\ \E ok \in [Backends -> BOOLEAN] :
         /\ backendHealth = [b \in Backends |-> HealthAfter(cycle, ok[b])]
         /\ probe = [b \in Backends |->
                [pc |-> "idle", healthy |-> ok[b], should |-> TRUE, i |-> 1, acc |-> <<>>,
                 runS |-> IF ok[b] THEN cycle ELSE 0,
                 runF |-> IF ok[b] THEN 0 ELSE UnhealthyThreshold - 1]]
    /\ loop = "select"
    /\ stop = "none"
    /\ InitSelVars

NextLocks ==
    \/ NextStop
    \/ AllBackendsRLock(Reader)
    \/ AllBackendsReturn(Reader)
    \/ PoolCloseRLock(Closer)
    \/ PoolCloseNext(Closer)
    \/ PoolCloseReturn(Closer)

\* a goroutine that holds pool.mu for reading goes on to release it
FairLocks ==
    /\ FairHealth
    /\ WF_vars(AllBackendsReturn(Reader))
    /\ WF_vars(PoolCloseNext(Closer))
    /\ WF_vars(PoolCloseReturn(Closer))

SpecLocks == InitLocks /\ [][NextLocks]_vars /\ FairLocks

\* ------------------------------------------------- the selector alone
\* Goroutines call RoundRobin.Next while updateBackendStatus republishes the
\* live snapshot.
AliveSubsequence(all, a) == SelectSeqIdx(all, LAMBDA x : a[x], 1)

\* RoundRobin.Next up to the emptiness test on the snapshot it loaded
RRLoad(p) ==
    /\ caller[p].pc = "idle"
    /\ SumCalls(returned) + Cardinality({q \in Callers : caller[q].pc = "add"}) < MaxCalls
    /\ caller' = [caller EXCEPT ![p] =
           IF Len(aliveBackends) = 0
           THEN [pc |-> "ret", snap |-> aliveBackends, res |-> 0, err |-> TRUE]
           ELSE [pc |-> "add", snap |-> aliveBackends, res |-> 0, err |-> FALSE]]
    /\ UNCHANGED <<poolVars, regVars, proxyVars, streamVars, healthVars, returned, updates, heap>>

\* RoundRobin.Next: counter.Add(1), the modulo, and the indexed element; an
\* index outside the loaded snapshot panics (res = 0)
RRAdd(p) ==
    /\ caller[p].pc = "add"
    /\ counter' = CounterAdd(counter)
    /\ LET snap == caller[p].snap
           idx == SelectedIndex(CounterAdd(counter), snap)
           res == IF idx \in 1..Len(snap) THEN snap[idx] ELSE 0 IN
       /\ caller' = [caller EXCEPT ![p].pc = "ret", ![p].res = res]
       /\ returned' = IF res \in SelBackends THEN [returned EXCEPT ![res] = @ + 1] ELSE returned
    /\ UNCHANGED <<poolVars, regVars, client, getter, streamVars, healthVars, updates, heap>>

\* the caller takes the result and may call again
RRReturn(p) ==
    /\ caller[p].pc = "ret"
    /\ caller' = [caller EXCEPT ![p].pc = "idle"]
    /\ UNCHANGED <<poolVars, regVars, proxyVars, streamVars, healthVars, returned, updates, heap>>

\* Pool.updateBackendStatus(address, alive), the whole call under pool.mu
UpdateBackendStatus(b, a) ==
    /\ updates < MaxUpdates
    /\ a # alive[b]
    /\ alive' = [alive EXCEPT ![b] = a]
    /\ aliveBackends' = AliveSubsequence([i \in 1..MaxLive |-> i], alive')
    /\ updates' = updates + 1
    /\ UNCHANGED <<poolVars, up, proxyVars, streamVars, healthVars, caller, returned, heap>>

\* a registry of MaxLive backends after some health cycles and Next() calls:
\* any liveness with the matching snapshot; a counter that is fresh, or within
\* MaxCalls calls of the top of its range
InitSelect ==
    /\ rev = 2
    /\ config = PoolConfig
    /\ worker = StartWorkers
    /\ now = 0
    /\ idleConns = [b \in SelBackends |-> <<>>]
    /\ activeCount = [b \in SelBackends |-> 0]
    /\ closed = [b \in SelBackends |-> FALSE]
    /\ conns = <<>>
    /\ wrappers = <<>>
    /\ up = [b \in SelBackends |-> TRUE]
    /\ alive \in [SelBackends -> BOOLEAN]
    /\ aliveBackends = AliveSubsequence([i \in 1..MaxLive |-> i], alive)
    /\ counter \in {0} \cup ((CounterModulus - MaxCalls)..(CounterModulus - 1))
    /\ client = [c \in Clients |-> NoClient]
    /\ getter = [c \in Clients |-> [k \in Attempts |-> NoGetter]]
    /\ InitStreamVars
    /\ InitHealthVars
    /\ InitSelVars

NextSelect ==
    \/ \E p \in Callers : RRLoad(p)
    \/ \E p \in Callers : RRAdd(p)
    \/ \E p \in Callers : RRReturn(p)
    \/ \E b \in SelBackends, a \in BOOLEAN : UpdateBackendStatus(b, a)

SpecSelect == InitSelect /\ [][NextSelect]_vars

\* ------------------------------------- the slices the registry hands out
\* Readers call GetAliveBackends and GetAllBackends and keep what they got
\* while updateBackendStatus republishes the live snapshot.  A slice is a
\* reference to a backing array of heap.arrays; two slices that refer to the
\* same array see each other's writes.
NoReader == [pc |-> "idle", ref |-> 0, seen |-> <<>>]

\* GetAliveBackends: pool.aliveBackends.Load(), the stored slice itself
GetAliveBackends(p) ==
    /\ caller[p].pc = "idle"
    /\ caller' = [caller EXCEPT ![p] =
           [pc |-> "alive", ref |-> heap.alive, seen |-> heap.arrays[heap.alive]]]
    /\ UNCHANGED <<poolVars, regVars, proxyVars, streamVars, healthVars, returned, updates, heap>>

\* the array GetAllBackends returns: backends := make([]*Backend, len), a new one
CopyOfAllBackends(h) == Len(h.arrays) + 1

\* the array updateBackendStatus fills and stores: make([]*Backend, 0, len), a
\* new one
RefillStoredSlice(h) == h.alive

NewAliveSlice(h) == Len(h.arrays) + 1

\* arrays with array ref holding contents; ref may be one past the last
WithArray(arrays, ref, contents) ==
    IF ref > Len(arrays) THEN Append(arrays, contents)
    ELSE [arrays EXCEPT ![ref] = contents]

\* GetAllBackends: under pool.mu.RLock, copy(backends, pool.allBackends)
GetAllBackends(p) ==
    /\ caller[p].pc = "idle"
    /\ LET ref == CopyOfAllBackends(heap) IN
       /\ heap' = [heap EXCEPT !.arrays = WithArray(@, ref, heap.arrays[heap.all])]
       /\ caller' = [caller EXCEPT ![p] =
              [pc |-> "all", ref |-> ref, seen |-> heap.arrays[heap.all]]]
    /\ UNCHANGED <<poolVars, regVars, proxyVars, streamVars, healthVars, returned, updates>>

\* the holder of a GetAllBackends result overwrites one of its elements
\* (0 is nil)
MutateAllBackends(p) ==
    /\ caller[p].pc = "all"
    /\ \E i \in 1..Len(heap.arrays[caller[p].ref]), x \in 0..NumBackends :
         /\ x # heap.arrays[caller[p].ref][i]
         /\ heap' = [heap EXCEPT !.arrays[caller[p].ref][i] = x]
    /\ caller' = [caller EXCEPT ![p].pc = "mutated"]
    /\ UNCHANGED <<poolVars, regVars, proxyVars, streamVars, healthVars, returned, updates>>

\* Pool.updateBackendStatus(address, alive), the whole call under pool.mu:
\* SetAlive on the backend found in pool.allBackends, then the live backends
\* of pool.allBackends appended to a new slice, which is stored
SnapshotUpdateStatus(b, a) ==
    /\ updates < MaxSnapUpdates
    /\ IF b \in Range(heap.arrays[heap.all])
       THEN LET ref == NewAliveSlice(heap)
                live == AliveSubsequence(heap.arrays[heap.all], [alive EXCEPT ![b] = a] @@ (0 :> FALSE))
            IN /\ alive' = [alive EXCEPT ![b] = a]
               /\ heap' = [heap EXCEPT !.arrays = WithArray(@, ref, live), !.alive = ref]
               /\ aliveBackends' = live
       ELSE UNCHANGED <<alive, heap, aliveBackends>>
    /\ updates' = updates + 1
    /\ UNCHANGED <<poolVars, up, proxyVars, streamVars, healthVars, caller, returned>>

InitSnapshot ==
    /\ rev = 2
    /\ config = PoolConfig
    /\ worker = StartWorkers
    /\ NewBackendPool
    /\ up = [b \in Backends |-> TRUE]
    /\ InitProxyVars
    /\ InitStreamVars
    /\ InitHealthVars
    /\ caller = [p \in Callers |-> NoReader]
    /\ returned = [b \in SelBackends |-> 0]
    /\ updates = 0
    /\ heap = NewRegistryHeap

NextSnapshot ==
    \/ \E p \in Callers : GetAliveBackends(p)
    \/ \E p \in Callers : GetAllBackends(p)
    \/ \E p \in Callers : MutateAllBackends(p)
    \/ \E b \in Backends, a \in BOOLEAN : SnapshotUpdateStatus(b, a)

SpecSnapshot == InitSnapshot /\ [][NextSnapshot]_vars

\* ------------------------------- a request against a settled live set
\* No checker step happens during the request: either no backend has been
\* demoted, or the checker has demoted every backend and republished the
\* snapshot (updateBackendStatus) before the request arrives.
InitAcquire ==
    /\ rev \in {1, 2}
    /\ config = PoolConfig
    /\ worker = StartWorkers
    /\ now = 0
    /\ idleConns = [b \in Backends |-> <<>>]
    /\ activeCount = [b \in Backends |-> 0]
    /\ closed = [b \in Backends |-> FALSE]
    /\ conns = <<>>
    /\ wrappers = <<>>
    /\ alive \in {[b \in Backends |-> TRUE], [b \in Backends |-> FALSE]}
    /\ aliveBackends = AliveSubsequence([i \in 1..NumBackends |-> i], alive)
    /\ up \in [Backends -> BOOLEAN]
    /\ \A b \in Backends : ~alive[b] => ~up[b]
    /\ InitProxyVars
    /\ InitStreamVars
    /\ InitHealthVars
    /\ InitSelVars

SpecAcquire == InitAcquire /\ [][NextProxy]_vars

\* ------------------------------------------- connection states (spec 4.B)
\* idle: on some pool's stack; checked-out: held through a PooledConnection
\* whose Close has not run; released: the descriptor has been closed.
IsIdle(id) == id \in IdleIds(conns[id].pool)
Holders(id) == {w \in 1..Len(wrappers) : wrappers[w].conn = id /\ ~wrappers[w].once}
IsCheckedOut(id) == Holders(id) # {}
IsReleased(id) == conns[id].fdClosed
Failed(id) == conns[id].fdClosed \/ conns[id].peerClosed
ConnsOf(b) == {id \in 1..Len(conns) : conns[id].pool = b}
CheckedOut(b) == {w \in 1..Len(wrappers) : ~wrappers[w].once /\ conns[wrappers[w].conn].pool = b}
ExactlyOne(id) ==
    Cardinality({k \in 1..3 : (k = 1 /\ IsIdle(id)) \/ (k = 2 /\ IsCheckedOut(id))
                              \/ (k = 3 /\ IsReleased(id))}) = 1

\* ------------------------------------------------------------- claims
\* C1: for every pool, under every interleaving of Get, PooledConnection.Close
\* (put), cleanup and Close, activeCount is never negative.
C1_ActiveCountNonNegative == \A b \in Backends : activeCount[b] >= 0

\* C2: for every pool, at every release of the pool lock,
\* activeCount + len(idleConns) <= maxActive.
C2_ActivePlusIdleWithinCap ==
    \A b \in Backends : activeCount[b] + Len(idleConns[b]) <= MaxActive

\* C3: on a pool that is not closed every connection is in exactly one of
\* idle / checked-out / released, and activeCount is the number of checked-out
\* connections (idle ones are not counted).
C3_AccountingRule ==
    \A b \in Backends : ~closed[b] =>
        /\ \A id \in ConnsOf(b) : ExactlyOne(id)
        /\ activeCount[b] = Cardinality(CheckedOut(b))

\* C4: the connections simultaneously checked out of a pool never exceed
\* maxActive, and a Get that finds the idle stack empty with the cap reached
\* fails with pool-exhausted without dialing.
C4_CheckedOutWithinCap ==
    \A b \in Backends :
        /\ Cardinality(CheckedOut(b)) <= MaxActive
        /\ (~closed[b] /\ Len(idleConns[b]) = 0 /\ activeCount[b] >= MaxActive)
            => \A dialOK \in BOOLEAN :
                   Get(b, dialOK).err = "ErrPoolExhausted" /\ ~Get(b, dialOK).dialed

\* C9: a connection that has failed (closed by its peer, or closed locally) is
\* never pushed onto the idle stack by put and never handed out by a later Get.
C9_FailedNeverPooled ==
    [][\A id \in 1..Len(conns) : Failed(id) =>
          /\ (~IsIdle(id) => id \notin IdleIds(conns[id].pool)')
          /\ (Len(wrappers') > Len(wrappers) => wrappers'[Len(wrappers')].conn # id)]_vars

\* C5: every connection a pool's Get produced for a client request is, once
\* the request has returned and none of its Get goroutines is still running,
\* closed through PooledConnection.Close, unless its pool has been closed.
C5_NoLeakedConnection ==
    \A c \in Clients : \A k \in Attempts :
        (client[c].pc = "done" /\ getter[c][k].st \notin {"running", "got"} /\ getter[c][k].w # 0)
            => (wrappers[getter[c][k].w].once \/ closed[getter[c][k].b])

\* C6: for every client request no backend address is passed to a pool Get
\* more than once.
C6_NoBackendDialedTwice ==
    \A c \in Clients : \A b \in Backends : client[c].getCalls[b] <= 1

C6_Witness ==
    \E c \in Clients :
        /\ client[c].pc = "done"
        /\ client[c].nextCalls = maxRetries
        /\ Cardinality(client[c].tried) = 1
        /\ counter > client[c].nextCalls
        /\ \E b \in Backends : client[c].getCalls[b] = 1

\* C7: with backends A (1, refusing) and B (2, accepting) in the live set, every
\* client request ends up proxied to B after at most one dial attempt to A,
\* whatever other clients' Next() calls do to the shared counter.  (Stated for
\* requests whose deadline did not cut the acquisition short, whose every Get
\* result was received, and with no pool closed.)
C7_ProxiedToAcceptingBackend ==
    \A c \in Clients :
        (/\ aliveBackends = <<1, 2>> /\ ~up[1] /\ up[2]
         /\ client[c].pc = "done" /\ client[c].err # "timeout"
         /\ \A k \in Attempts : getter[c][k].st \in {"none", "recvd"}
         /\ \A b \in Backends : ~closed[b])
        => (/\ client[c].outcome = "proxied" /\ client[c].sel = 2
            /\ client[c].getCalls[1] <= 1)

\* C8: half-close.  Once the client-to-backend copy has read the client's EOF
\* and returned, the backend connection's write side is closed (so the backend
\* reads EOF) while the other direction keeps running; and a client whose
\* read returns EOF after the backend's own EOF has received every byte the
\* backend sent.
C8_HalfClose ==
    /\ (copy["c2b"].pc = "done" /\ copy["c2b"].err = "EOF") => wire.pFinB
    /\ (wire.cEOF /\ copy["b2c"].err = "EOF") => wire.cRecv = wire.bSent

\* C10: whenever an updateBackendStatus call has completed, the published
\* live snapshot is exactly the subsequence of allBackends whose alive flag is
\* true, in allBackends order, also with the other backends' probes running.
C10_SnapshotIsAliveSubsequence ==
    \A b \in Backends :
        probe[b].pc = "updated" =>
            aliveBackends = SelectSeqIdx([i \in 1..NumBackends |-> i], LAMBDA x : alive[x], 1)

C10_Witness ==
    \E b \in Backends :
        /\ probe[b].pc = "updated"
        /\ alive[b]
        /\ Len(aliveBackends) < NumBackends
        /\ \E o \in Backends \ {b} : probe[o].pc \in {"storeErr", "lock"}

\* C11: while the live set (of size K) has not been republished, after any N
\* Next() calls, sequential or concurrent, every backend of the live set has
\* been returned floor(N/K) or ceil(N/K) times.
C11_RoundRobinFair ==
    (updates = 0 /\ Len(aliveBackends) > 0) =>
        LET K == Len(aliveBackends)
            N == SumCalls(returned) IN
        \A i \in 1..K :
            returned[aliveBackends[i]] \in {N \div K, (N + K - 1) \div K}

\* C12: a Next() call fails with no-backends-available exactly when the
\* snapshot it loaded is empty, and otherwise returns an element of that same
\* snapshot, whatever updateBackendStatus has published in the meantime.
C12_NextUsesLoadedSnapshot ==
    \A p \in Callers :
        caller[p].pc = "ret" =>
            /\ caller[p].err <=> Len(caller[p].snap) = 0
            /\ ~caller[p].err => caller[p].res \in Range(caller[p].snap)

C12_Witness ==
    \E p \in Callers :
        /\ caller[p].pc = "ret"
        /\ ~caller[p].err
        /\ Len(aliveBackends) < Len(caller[p].snap)
        /\ caller[p].res \in Range(caller[p].snap)
        /\ caller[p].res \notin Range(aliveBackends)

\* C13: hysteresis.  A dead backend becomes alive only when its probe outcomes
\* end in a run of at least healthyThreshold successes, and an alive backend
\* becomes dead only when they end in a run of at least unhealthyThreshold
\* failures.
C13_Hysteresis ==
    [][\A b \in Backends :
          /\ (~alive[b] /\ alive'[b]) => probe[b].runS >= HealthyThreshold
          /\ (alive[b] /\ ~alive'[b]) => probe[b].runF >= UnhealthyThreshold]_vars

C13_Witness ==
    \E b \in Backends :
        /\ ~alive[b]
        /\ probe[b].pc = "idle"
        /\ probe[b].runF = 1
        /\ backendHealth[b].consecutiveFailures = 1

\* C14: a probe result makes checkBackend call updateBackendStatus(addr, true)
\* exactly when the backend is dead and the probe brings consecutiveSuccesses
\* to healthyThreshold or more, updateBackendStatus(addr, false) exactly when
\* it is alive and the probe brings consecutiveFailures to unhealthyThreshold
\* or more, and no update in every other case.
C14_UpdateExactlyOnThreshold ==
    [][\A b \in Backends :
          (probe[b].pc = "lock" /\ probe'[b].pc # "lock") =>
              LET h == backendHealth'[b]
                  calls == probe'[b].pc = "update" IN
              /\ (calls /\ probe'[b].should)
                    <=> (~alive[b] /\ h.consecutiveSuccesses >= HealthyThreshold)
              /\ (calls /\ ~probe'[b].should)
                    <=> (alive[b] /\ h.consecutiveFailures >= UnhealthyThreshold)]_vars

C14_Witness ==
    \E b \in Backends :
        /\ probe[b].pc = "update"
        /\ probe[b].should
        /\ backendHealth[b].consecutiveSuccesses = HealthyThreshold
        /\ \E o \in Backends \ {b} : alive[o] /\ backendHealth[o].consecutiveFailures > 0

\* C15: a finished request has either streamed to a backend or been answered
\* with the 503 response exactly once; and once a failed request's Get
\* goroutines have all finished, no PooledConnection obtained for it is still
\* open (unless its pool has been closed).
C15_OneOutcomeNothingHeld ==
    \A c \in Clients :
        client[c].pc = "done" =>
            /\ client[c].outcome \in {"proxied", "503"}
            /\ client[c].outcome = "proxied" <=> client[c].sent503 = 0
            /\ client[c].outcome = "503" <=> client[c].sent503 = 1
            /\ (client[c].outcome = "503"
                  /\ \A k \in Attempts : getter[c][k].st \notin {"running", "got"})
                => \A k \in Attempts :
                       getter[c][k].w # 0 =>
                           (wrappers[getter[c][k].w].once \/ closed[getter[c][k].b])

\* C16: PooledConnection.Close is idempotent.  However many Close calls a
\* wrapper has received, pool.put has run for it exactly once, and a Close call
\* after the first leaves the idle stack, activeCount and the connections as
\* the first call left them.
C16_CloseIdempotent ==
    [][\A w \in 1..Len(wrappers) :
          /\ wrappers'[w].puts = (IF wrappers'[w].once THEN 1 ELSE 0)
          /\ wrappers'[w].again => wrappers'[w].once
          /\ (~wrappers[w].again /\ wrappers'[w].again)
                => UNCHANGED <<idleConns, activeCount, conns>>]_vars

C16_Witness ==
    \E w \in 1..Len(wrappers) :
        /\ wrappers[w].again
        /\ wrappers[w].puts = 1
        /\ IsIdle(wrappers[w].conn)

\* C17: once ConnectionPool.Close has returned, every connection that was idle
\* is closed, the idle stack is and stays empty, every later Get fails with
\* pool-closed and produces no PooledConnection, and a put of a connection
\* that was in flight closes it instead of pooling it.
C17_ClosedPoolStaysClosed ==
    [][\A b \in Backends :
          /\ (~closed[b] /\ closed'[b]) => \A id \in IdleIds(b) : conns'[id].fdClosed
          /\ closed'[b] => Len(idleConns'[b]) = 0
          /\ closed[b] =>
                /\ closed'[b]
                /\ \A dialOK \in BOOLEAN : Get(b, dialOK).err = "ErrPoolClosed"
                /\ \A w \in (1..Len(wrappers')) \ (1..Len(wrappers)) :
                       conns'[wrappers'[w].conn].pool # b
                /\ \A w \in 1..Len(wrappers) :
                       (conns[wrappers[w].conn].pool = b /\ ~wrappers[w].once /\ wrappers'[w].once)
                           => conns'[wrappers[w].conn].fdClosed]_vars

\* C18: in every reachable state the idle stack of every pool holds at most
\* maxIdle connections, whatever the interleaving of put, Get, cleanup and
\* Close.
C18_IdleWithinMaxIdle ==
    \A b \in Backends : Len(idleConns[b]) <= MaxIdle

\* The stack is full and a put on the open pool has closed a connection
\* instead of appending it: the closed connection was held by one wrapper only
\* (so it was never popped) and no idle entry has expired yet.
C18_Witness ==
    /\ rev = 1
    /\ now = 0
    /\ ~closed[1]
    /\ Len(idleConns[1]) = MaxIdle
    /\ \E w \in 1..Len(wrappers) :
          /\ wrappers[w].once
          /\ conns[wrappers[w].conn].fdClosed
          /\ wrappers[w].conn \notin IdleIds(1)
          /\ \A v \in 1..Len(wrappers) : v # w => wrappers[v].conn # wrappers[w].conn

IsPrefix(s, t) == Len(s) <= Len(t) /\ s = SubSeq(t, 1, Len(s))

\* C19: in the streaming phase the bytes the proxy has written to the backend
\* are a prefix, in order and without duplication, of the bytes copyData read
\* from the client, and the bytes written to the client are such a prefix of
\* the bytes read from the backend; once a chunk is written nothing read is
\* outstanding.  The 503 response is not among them.
C19_WrittenIsPrefixOfRead ==
    /\ IsPrefix(wire.outB, copy["c2b"].rd)
    /\ IsPrefix(wire.outC, copy["b2c"].rd)
    /\ copy["c2b"].pc = "read" => wire.outB = copy["c2b"].rd
    /\ copy["b2c"].pc = "read" => wire.outC = copy["b2c"].rd
    /\ \A i \in 1..Len(wire.outC) : wire.outC[i] # ServiceUnavailable

\* Both directions have copied two chunks of one byte each, with different
\* values, through a buffer that is larger than a chunk: the second chunk
\* overwrote the first in the buffer, and everything read has been written.
C19_Witness ==
    \A d \in Dirs :
        /\ copy[d].pc = "read"
        /\ Len(copy[d].rd) = 2
        /\ copy[d].rd[1] # copy[d].rd[2]
        /\ copy[d].buffer[1] = copy[d].rd[2]
        /\ Len(copy[d].buffer) > 1
    /\ wire.outB = copy["c2b"].rd
    /\ wire.outC = copy["b2c"].rd

\* C20: a call of HealthChecker.Stop eventually returns, and once it has
\* returned the loop has ended, no checkBackend goroutine is running, and the
\* checker changes no alive flag, no health record and no live snapshot.
C20_StopReturnsAndQuiesces ==
    /\ (stop = "wait") ~> (stop = "returned")
    /\ [](stop = "returned" => (loop = "done" /\ \A b \in Backends : probe[b].pc = "idle"))
    /\ [][stop = "returned" => UNCHANGED <<alive, aliveBackends, backendHealth, probe, hcMu, poolMu>>]_vars

\* Stop has returned after the loop ran at least one cycle and while it could
\* still have run another one.
C20_Witness ==
    /\ stop = "returned"
    /\ cycle > MaxCycles - MaxStopCycles
    /\ cycle < MaxCycles

\* C21: while no health checker runs, every backend keeps its alive flag and
\* the published snapshot stays the full backend list, whatever the proxy
\* engine does (empty or repeated selections, failed dials, timeouts, 503s,
\* streaming and teardown).
C21_LiveSetUntouchedByProxy ==
    /\ \A b \in Backends : alive[b]
    /\ aliveBackends = [i \in 1..NumBackends |-> i]

\* A request has ended in the 503 after a dial to a backend failed.
C21_Witness ==
    \E c \in Clients :
        /\ client[c].outcome = "503"
        /\ \E k \in Attempts : getter[c][k].err = "dial"
        /\ \A b \in Backends : ~up[b]

\* C22: every backend's pool is built with maxIdle = 10, maxActive = 100,
\* idleTimeout = 30 seconds and connectTimeout = 5 seconds, and the dial of
\* Get is bounded by that connectTimeout.
C22_PoolDefaults ==
    /\ NewBackendConfig.maxIdle = 10
    /\ NewBackendConfig.maxActive = 100
    /\ NewBackendConfig.idleTimeout = Seconds(30)
    /\ NewBackendConfig.connectTimeout = Seconds(5)
    /\ DialTimeout(rev, NewBackendConfig) = Seconds(5)

\* C23: with exactly two live backends and maxRetries = 3, once the first two
\* attempts have each dialed a backend and failed, no third dial is started:
\* the third selection returns a backend of the attempt set, whose size
\* already equals the available count, and the loop is left by its break,
\* not by running out of attempts.
C23_AllAttemptedShortCircuit ==
    \A c \in Clients :
        (Len(aliveBackends) = 2 /\ getter[c][1].st # "none" /\ getter[c][2].st # "none"
            /\ client[c].attempt > 2)
        => /\ getter[c][3].st = "none"
           /\ client[c].attempt = 3
           /\ Cardinality(client[c].tried) = GetAvailableCount
           /\ client[c].pc \in {"loop", "next", "add", "check", "fail", "done"}
           /\ client[c].pc = "done" => client[c].outcome = "503"

\* Both dials failed, the third selection was made, and the loop was left by
\* the break.
C23_Witness ==
    \E c \in Clients :
        /\ getter[c][1].err = "dial"
        /\ getter[c][2].err = "dial"
        /\ client[c].nextCalls = 3
        /\ client[c].pc = "fail"
        /\ client[c].err = "allfailed"
        /\ ~client[c].ctxDone

\* the dials a request has started
Dials(c) == {k \in Attempts : getter[c][k].st # "none"}

\* C24: no request calls the selector more than maxRetries times or dials
\* more than maxRetries times; while the live set is empty a request dials
\* nothing, holds nothing, and ends with the 503 after at most maxRetries
\* selections.
C24_BoundedAttempts ==
    \A c \in Clients :
        /\ client[c].nextCalls <= maxRetries
        /\ client[c].attempt <= maxRetries + 1
        /\ Cardinality(Dials(c)) <= maxRetries
        /\ SumUpTo(client[c].getCalls, NumBackends) <= Cardinality(Dials(c))
        /\ Len(aliveBackends) = 0 =>
              /\ Dials(c) = {}
              /\ client[c].tried = {}
              /\ conns = <<>>
              /\ client[c].pc \notin {"add", "check", "wait", "stream", "teardown"}
              /\ client[c].pc = "done" => (client[c].outcome = "503" /\ client[c].sent503 = 1)

\* The live set is empty and the request got the 503 after maxRetries
\* selections, its deadline not having fired before.
C24_Witness ==
    \E c \in Clients :
        /\ Len(aliveBackends) = 0
        /\ client[c].nextCalls = maxRetries
        /\ client[c].err = "allfailed"
        /\ client[c].outcome = "503"

\* C25: once the deadline of a request's context has fired, the acquisition
\* loop of that request starts no further Selector.Next and no further pool
\* Get, leaves the loop with the timeout error, and does not go on to stream.
C25_DeadlineStopsAcquisition ==
    [][\A c \in Clients :
          (client[c].ctxDone /\ client[c].pc \notin {"stream", "teardown", "fail", "done"})
          => /\ client'[c].nextCalls = client[c].nextCalls
             /\ {k \in Attempts : getter'[c][k].st # "none"} = Dials(c)
             /\ client'[c].pc # "stream"
             /\ client'[c].pc = "fail" => client'[c].err = "timeout"]_vars

\* C26: in a serial run of Get and Close on one open pool with no entry
\* expiring, a Get that finds an idle entry pops it, dials nothing and leaves
\* activeCount alone; once a connection has been dialed and closed an idle
\* entry is there for every later Get, so one connection is dialed in all,
\* and activeCount never exceeds 1.
C26_IdleReuse ==
    [][/\ activeCount'[1] <= 1
       /\ Len(conns') <= 1
       /\ (Len(wrappers') > 0 /\ \A w \in 1..Len(wrappers') : wrappers'[w].once)
             => Len(idleConns'[1]) = 1
       /\ (Len(wrappers') > Len(wrappers) /\ Len(idleConns[1]) > 0)
             => /\ wrappers'[Len(wrappers')].conn = idleConns[1][Len(idleConns[1])].conn
                /\ idleConns'[1] = SubSeq(idleConns[1], 1, Len(idleConns[1]) - 1)
                /\ conns' = conns
                /\ activeCount' = activeCount]_vars

\* Three serial Get/Close cycles have been served by one dialed connection.
C26_Witness ==
    /\ Len(wrappers) = 3
    /\ \A w \in 1..Len(wrappers) : wrappers[w].once /\ wrappers[w].conn = 1
    /\ Len(conns) = 1
    /\ Len(idleConns[1]) = 1

RECURSIVE IsSubsequence(_, _)
\* s can be obtained from t by deleting elements, the rest kept in t's order
IsSubsequence(s, t) ==
    IF s = <<>> THEN TRUE
    ELSE IF t = <<>> THEN FALSE
    ELSE IF Head(s) = Head(t) THEN IsSubsequence(Tail(s), Tail(t))
    ELSE IsSubsequence(s, Tail(t))

\* C27: the idle stack is LIFO.  A put only ever appends its entry on top of
\* the entries already idle, stamped with the current time; a Get that finds the
\* stack non-empty hands out the top entry, which no idle entry was put after,
\* and leaves the others as they were; a cleanup keeps its entries in the order
\* they had.
C27_IdleStackLifo ==
    [][LET old == idleConns[1]
           new == idleConns'[1]
           n == Len(old) IN
       \* Get: a new PooledConnection was handed out while entries were idle
       /\ (Len(wrappers') > Len(wrappers) /\ n > 0 /\ ~closed[1]) =>
             /\ wrappers'[Len(wrappers')].conn = old[n].conn
             /\ new = SubSeq(old, 1, n - 1)
             /\ \A i \in 1..n : old[i].lastUsedAt <= old[n].lastUsedAt
       \* put: the stack grew
       /\ Len(new) > n =>
             /\ Len(new) = n + 1
             /\ SubSeq(new, 1, n) = old
             /\ new[n + 1].lastUsedAt = now
             /\ \A i \in 1..n : old[i].conn # new[n + 1].conn
       \* cleanup: the stack shrank with no Get and no Close of the pool
       /\ (Len(new) < n /\ wrappers' = wrappers /\ closed' = closed) =>
             IsSubsequence(new, old)
      ]_vars

\* a PooledConnection was taken from the top of a stack holding another entry
\* below it, and that other entry is still idle
C27_Witness ==
    \E w \in 1..Len(wrappers) :
        /\ wrappers[w].below >= 1
        /\ ~wrappers[w].once
        /\ Len(idleConns[1]) >= 1
        /\ idleConns[1][1].conn # wrappers[w].conn

\* the idle entries of pool 1 that are older than idleTimeout
OlderThanTimeout ==
    {i \in 1..Len(idleConns[1]) : now - idleConns[1][i].lastUsedAt > IdleTimeout}

\* C28: a cleanup run on an open pool removes and closes exactly the idle entries
\* whose lastUsedAt is older than idleTimeout and keeps all others as they are,
\* in their order; a cleanup run on a closed pool changes nothing; and once a
\* cleanup has removed every idle entry, a Get by a caller that holds no other
\* connection of the pool goes on to dial.
C28_CleanupReleasesExpired ==
    /\ [](LET old == idleConns[1]
              r == cleanup(1) IN
          IF closed[1]
          THEN r.idle = old /\ r.active = activeCount[1] /\ r.cs = conns
          ELSE /\ IsSubsequence(r.idle, old)
               /\ \A i \in 1..Len(old) : (i \in OlderThanTimeout) <=> (old[i] \notin Range(r.idle))
               /\ \A i \in OlderThanTimeout : r.cs[old[i].conn].fdClosed
               /\ \A id \in 1..Len(conns) :
                      id \notin {old[i].conn : i \in OlderThanTimeout} => r.cs[id] = conns[id])
    /\ [][(/\ Cleanup(1)
            /\ ~closed[1]
            /\ OlderThanTimeout = 1..Len(idleConns[1])
            /\ \A w \in 1..Len(wrappers) : wrappers[w].once)
           => /\ idleConns'[1] = <<>>
              /\ \A dialOK \in BOOLEAN :
                    /\ Get(1, dialOK)'.dialed
                    /\ dialOK => Get(1, dialOK)'.conn = Len(conns) + 1]_vars

\* a cleanup has closed the one expired entry of an open pool and kept the
\* other, which has not expired
C28_Witness ==
    /\ rev = 2
    /\ ~closed[1]
    /\ Len(conns) = 2
    /\ Len(idleConns[1]) = 1
    /\ now - idleConns[1][1].lastUsedAt <= IdleTimeout
    /\ \A w \in 1..Len(wrappers) : wrappers[w].once
    /\ \E id \in 1..Len(conns) : conns[id].fdClosed /\ id \notin IdleIds(1)

\* C29: once ConnectionPool.Close has been called the cleanup worker of the
\* pool eventually leaves its loop, and it takes no tick from its ticker after
\* the Close.
C29_WorkerExitsAfterClose ==
    /\ [][closed[1] => worker'[1] \in {worker[1], "range", "exit"}]_vars
    /\ (closed[1] ~> worker[1] = "exit")

\* a peer has closed its side, or a copyData has run into its read deadline
StreamEnding ==
    wire.cFin \/ wire.bFin \/ \E d \in Dirs : copy[d].err = "timeout"

\* C30: in the streaming phase HandleConnection closes neither the backend
\* PooledConnection nor the client connection before both copyData calls have
\* returned; when it has closed them the PooledConnection has been put back
\* exactly once; and once a peer has closed or a read deadline has fired, the
\* teardown is eventually reached.
C30_TeardownAfterBothCopies ==
    /\ [](\A c \in Clients :
            /\ (wrappers[client[c].bconn].once \/ client[c].pc = "done") =>
                  \A d \in Dirs : copy[d].pc = "done"
            /\ client[c].pc = "done" =>
                  /\ wrappers[client[c].bconn].once
                  /\ wrappers[client[c].bconn].puts = 1
                  /\ ~wrappers[client[c].bconn].again)
    /\ \A c \in Clients : StreamEnding ~> client[c].pc = "done"

\* the client closed first, the backend never did: the backend-to-client copy
\* ended on its read deadline, and the handler has closed both connections
C30_Witness ==
    \E c \in Clients :
        /\ client[c].pc = "done"
        /\ wire.cFin
        /\ ~wire.bFin
        /\ copy["c2b"].err = "EOF"
        /\ copy["b2c"].err = "timeout"
        /\ wrappers[client[c].bconn].puts = 1

\* C31: published snapshots are immutable.  The slice a reader got from
\* GetAliveBackends has the length and the elements it had when the reader got
\* it, whatever updateBackendStatus calls came later; and the registry's list of
\* all backends is the list NewBackendPool built, whatever the readers did to
\* the slices GetAllBackends gave them.
C31_SnapshotsImmutable ==
    /\ \A p \in Callers :
          caller[p].pc = "alive" => heap.arrays[caller[p].ref] = caller[p].seen
    /\ heap.arrays[heap.all] = [i \in 1..NumBackends |-> i]

\* one reader holds a snapshot that has since been replaced by a different
\* one, another has overwritten an element of its GetAllBackends result
C31_Witness ==
    \E p, q \in Callers :
        /\ caller[p].pc = "alive"
        /\ caller[p].ref # heap.alive
        /\ heap.arrays[heap.alive] # caller[p].seen
        /\ caller[q].pc = "mutated"
        /\ heap.arrays[caller[q].ref] # caller[q].seen

\* the probes made of backend b since Start have all succeeded
NeverFailed(b) ==
    /\ probe[b].runF = 0
    /\ probe[b].runS = cycle - (IF probe[b].pc = "dial" THEN 1 ELSE 0)

\* C32: starting the health checker does not perturb the live set.  Before the
\* first cycle every backend, all of them alive, has consecutiveSuccesses =
\* healthyThreshold; a backend whose probes have all succeeded is alive and in
\* the live snapshot, with its counter at healthyThreshold plus the successes
\* recorded; and a backend is demoted only when its probe outcomes end in at
\* least unhealthyThreshold failures.
C32_StartKeepsLiveSet ==
    /\ [](\A b \in Backends :
            /\ cycle = 0 =>
                  /\ alive[b]
                  /\ backendHealth[b].consecutiveSuccesses = HealthyThreshold
                  /\ backendHealth[b].consecutiveFailures = 0
            /\ NeverFailed(b) =>
                  /\ alive[b]
                  /\ b \in Range(aliveBackends)
                  /\ backendHealth[b].consecutiveSuccesses >= HealthyThreshold)
    /\ [][\A b \in Backends :
            (b \in Range(aliveBackends) /\ b \notin Range(aliveBackends')) =>
                /\ probe[b].runF >= UnhealthyThreshold
                /\ backendHealth[b].consecutiveFailures >= UnhealthyThreshold]_vars

\* after Start one backend has been probed successfully in two cycles and is
\* live, the other has failed unhealthyThreshold probes in a row and has been
\* taken out of the live snapshot
C32_Witness ==
    \E b, o \in Backends :
        /\ NeverFailed(b)
        /\ probe[b].runS >= 2
        /\ b \in Range(aliveBackends)
        /\ o \notin Range(aliveBackends)
        /\ probe[o].runF = UnhealthyThreshold
        /\ cycle = UnhealthyThreshold

\* C33: a client that has sent no bytes when its handshake read deadline passes
\* is shed: HandleConnection does not go on to the streaming phase with a
\* backend connection held for it.
C33_SilentClientShed ==
    \A c \in Clients :
        (wire.cSent = 0 /\ client[c].clientReadDeadline = "passed") =>
            ~(client[c].pc = "stream" /\ client[c].bconn # 0)

\* C34: the bytes written to a client are bytes the backend wrote during that
\* client's own session: none of them is a byte the backend had written to the
\* connection before the session began.
C34_NoCrossSessionBytes ==
    \A i \in 1..Len(wire.outC) : wire.outC[i] > wire.stale

\* no probe, no updateBackendStatus, no GetAllBackends, no Pool.Close and no
\* Stop is under way, and both locks are free
Quiescent ==
    /\ \A b \in Backends : probe[b].pc = "idle"
    /\ \A p \in Callers : caller[p].pc = "idle"
    /\ hcMu = 0
    /\ poolMu = 0
    /\ stop # "wait"

\* C35: the checker, the registry and their readers never deadlock.  pool.mu
\* is write-locked only by the probe that holds hc.mu, never together with a
\* reader, and nobody who holds pool.mu waits for hc.mu; so every probe, every
\* updateBackendStatus, every GetAllBackends, Pool.Close and Stop that has
\* begun completes: again and again nothing is under way.
C35_NoDeadlock ==
    /\ [](/\ poolMu # 0 => (hcMu = poolMu /\ RLockHolders = {})
          /\ \A b \in Backends :
                probe[b].pc \in {"update", "rebuild", "updated", "unlock"} => hcMu = b)
    /\ []<>Quiescent

\* a probe waits in pool.mu.Lock() with hc.mu held while one goroutine is
\* inside GetAllBackends, another probe waits for hc.mu, and Stop has been
\* called
C35_Witness ==
    \E b, o \in Backends, p \in Callers :
        /\ probe[b].pc = "update"
        /\ hcMu = b
        /\ caller[p].pc \in {"rlockedAll", "rlockedClose"}
        /\ probe[o].pc = "lock"
        /\ stop = "wait"

====
